---- MODULE Spec2Model ----
(***************************************************************************)
(* Label-compliance pipeline of the 4IR backend: image -> extracted text   *)
(* -> regulations query -> compliance validation -> PDF report.            *)
(*                                                                         *)
(* One request handled by ImageController.extract_text is modelled as a    *)
(* state machine whose steps are the code between two external calls.      *)
(* Python values are tagged records (PyNone, PyStr, ...), strings are      *)
(* sequences of one-character strings.  A dict decoded from a JSON body is *)
(* a PyDict (ordered items); a dict the controllers build is a record      *)
(* whose DOMAIN is the set of keys present.                                *)
(***************************************************************************)
EXTENDS Integers, Sequences, FiniteSets, TLC

VARIABLES
    pc,            \* position of the request inside extract_text
    wiring,        \* which optional controllers are injected
    request,       \* request_data handed to ImageController.extract_text
    llm_response,  \* LLMResponseDTO returned by _call_llm_service
    result,        \* TextExtractionResponseDTO built by extract_text_from_image
    rag_response,  \* RAGResponseDTO returned by RAGService.query_regulations
    rag_result,    \* dict returned by process_extracted_text_for_regulations
    validation,    \* what happened inside process_full_validation
    pdf_result,    \* dict returned by generate_compliance_report
    calls,         \* external collaborators invoked so far, in order
    attempts,      \* POSTs sent to each endpoint, retries included
    last_post,     \* the latest POST: its answer and what the client made of it
    raised,        \* exception that left extract_text_from_image
    response,      \* dict returned by ImageController.extract_text
    fn_in,         \* input handed to a pure function under test
    fn_out,        \* its result
    users          \* UserRepository._data: the stored users by id

vars == << pc, wiring, request, llm_response, result, rag_response, rag_result,
           validation, pdf_result, calls, attempts, last_post, raised, response,
           fn_in, fn_out, users >>

(***************************************************************************)
(* Python values                                                           *)
(***************************************************************************)
PyNone == [t |-> "none"]
PyStr(s) == [t |-> "str", s |-> s]
PyInt(n) == [t |-> "int", n |-> n]
PyList(elems) == [t |-> "list", elems |-> elems]
\* a dict keeps insertion order: a sequence of <<key, value>> items
PyDict(items) == [t |-> "dict", items |-> items]

NotRun == [t |-> "notrun"]

Whitespace == {" ", "\n", "\t"}

RECURSIVE LStrip(_)
LStrip(s) ==
    IF s = << >> THEN << >>
    ELSE IF Head(s) \in Whitespace THEN LStrip(Tail(s)) ELSE s

RECURSIVE RStrip(_)
RStrip(s) ==
    IF s = << >> THEN << >>
    ELSE IF s[Len(s)] \in Whitespace THEN RStrip(SubSeq(s, 1, Len(s) - 1)) ELSE s

\* str.strip()
Strip(s) == RStrip(LStrip(s))

\* bool(value)
Truthy(v) ==
    CASE v.t = "none" -> FALSE
      [] v.t = "str" -> v.s # << >>
      [] v.t = "int" -> v.n # 0
      [] v.t = "list" -> v.elems # << >>
      [] v.t = "dict" -> v.items # << >>
      [] OTHER -> FALSE

Digits == << "0", "1", "2", "3", "4", "5", "6", "7", "8", "9" >>

\* str(value), for the values the model feeds it
Str(v) ==
    CASE v.t = "str" -> v.s
      [] v.t = "none" -> << "N", "o", "n", "e" >>
      [] v.t = "int" -> << Digits[v.n + 1] >>
      [] v.t = "list" -> << "[", "]" >>
      [] v.t = "dict" -> << "{", "}" >>

\* key in dict
HasKey(d, k) == \E i \in 1..Len(d.items) : d.items[i][1] = k

\* dict[key]
Get(d, k) == d.items[CHOOSE i \in 1..Len(d.items) : d.items[i][1] = k][2]

(***************************************************************************)
(* Exceptions: the class hierarchy of src/exceptions and isinstance        *)
(***************************************************************************)
BaseClass ==
    [ Base64ValidationError     |-> "ValidationException",
      ValidationException       |-> "BaseApplicationException",
      ImageSizeError            |-> "ImageProcessingError",
      UnsupportedImageTypeError |-> "ImageProcessingError",
      ImageProcessingError      |-> "BaseApplicationException",
      LLMServiceTimeoutError    |-> "LLMServiceError",
      LLMServiceError           |-> "ExternalServiceError",
      ExternalServiceError      |-> "BaseApplicationException",
      TextExtractionError       |-> "BaseApplicationException",
      BaseApplicationException  |-> "Exception",
      AttributeError            |-> "Exception",
      TypeError                 |-> "Exception",
      RuntimeError              |-> "Exception" ]

RECURSIVE IsInstance(_, _)
IsInstance(cls, target) ==
    \/ cls = target
    \/ /\ cls \in DOMAIN BaseClass
       /\ IsInstance(BaseClass[cls], target)

NoException == [cls |-> "none"]
Exc(cls) == [cls |-> cls]
ImageSizeError(actual_size, max_size) ==
    [cls |-> "ImageSizeError", actual_size |-> actual_size, max_size |-> max_size]
UnsupportedImageTypeError(image_type, supported_types) ==
    [cls |-> "UnsupportedImageTypeError", image_type |-> image_type,
     supported_types |-> supported_types]

(***************************************************************************)
(* Image validation: LLMService._validate_image_data                       *)
(***************************************************************************)
MAX_IMAGE_SIZE_MB == 5

BytesPerMB == 1024 * 1024

ALLOWED_IMAGE_TYPES == {"image/jpeg", "image/jpg", "image/png"}

\* f"image/{image_type}" for the names imghdr.what can return
MimeOf(image_type) ==
    CASE image_type = "jpeg" -> "image/jpeg"
      [] image_type = "png" -> "image/png"
      [] image_type = "gif" -> "image/gif"
      [] image_type = "bmp" -> "image/bmp"

\* [t.split('/')[-1] for t in ALLOWED_IMAGE_TYPES]
SupportedTypes == << "jpeg", "jpg", "png" >>

\* how far around the size limit the decoded payloads of the model reach
SizeMargin == 1

ImageSizes ==
    {0} \cup { MAX_IMAGE_SIZE_MB * BytesPerMB + d : d \in (0 - SizeMargin)..SizeMargin }

SniffedTypes == {"jpeg", "png", "gif", "bmp", "unknown"}

\* encoded_image as the checks see it: None, "", a string base64.b64decode
\* rejects, or a string that decodes to `size` bytes imghdr sniffs as `sniffed`
EncodedImages ==
    { [kind |-> "none"], [kind |-> "empty"], [kind |-> "undecodable"] }
    \cup { [kind |-> "image", size |-> n, sniffed |-> ty] :
             n \in ImageSizes, ty \in SniffedTypes }

Requests ==
    { [has_encoded_image |-> FALSE] }
    \cup { [has_encoded_image |-> TRUE, encoded_image |-> e] : e \in EncodedImages }
    \cup { [ has_encoded_image |-> TRUE, media_type |-> "image/png",
             encoded_image |-> [kind |-> "image", size |-> 0, sniffed |-> "png"] ] }

SizeCheckFailsMutant(size) == size >= MAX_IMAGE_SIZE_MB * BytesPerMB

\* image_size_mb = len(image_data) / (1024 * 1024); image_size_mb > max_size_mb.
\* The division by a power of two is exact in binary floating point, so the
\* comparison is the comparison of the byte counts.
SizeCheckFails(size) == size > MAX_IMAGE_SIZE_MB * BytesPerMB

TypeCheckFails(sniffed) ==
    \/ sniffed = "unknown"
    \/ MimeOf(sniffed) \notin ALLOWED_IMAGE_TYPES

ValidateImageDataMutant(image_request) ==
    LET e == image_request.encoded_image IN
    IF e.kind \in {"none", "empty"} THEN Exc("Base64ValidationError")
    ELSE IF e.kind = "undecodable" THEN Exc("Base64ValidationError")
    ELSE IF TypeCheckFails(e.sniffed)
         THEN UnsupportedImageTypeError(e.sniffed, SupportedTypes)
    ELSE IF SizeCheckFails(e.size)
         THEN ImageSizeError(e.size, MAX_IMAGE_SIZE_MB * BytesPerMB)
    ELSE NoException

\* the exception _validate_image_data raises, NoException when it returns
ValidateImageData(image_request) ==
    LET e == image_request.encoded_image IN
    IF e.kind \in {"none", "empty"} THEN Exc("Base64ValidationError")
    ELSE IF e.kind = "undecodable" THEN Exc("Base64ValidationError")
    ELSE IF SizeCheckFails(e.size)
         THEN ImageSizeError(e.size, MAX_IMAGE_SIZE_MB * BytesPerMB)
    ELSE IF TypeCheckFails(e.sniffed)
         THEN UnsupportedImageTypeError(e.sniffed, SupportedTypes)
    ELSE NoException

\* ImageUploadRequestDTO.from_dict
ImageUploadRequestDTO(request_data) ==
    [ encoded_image |-> request_data.encoded_image,
      media_type    |-> IF "media_type" \in DOMAIN request_data
                        THEN request_data.media_type ELSE "image/jpeg" ]

(***************************************************************************)
(* Outcome of one session.post and its classification                      *)
(***************************************************************************)
\* response.ok
ResponseOk(status_code) == status_code < 400

\* LLMResponseDTO.from_dict
LLMResponseDTO(response_data) ==
    [ data  |-> IF HasKey(response_data, "data") THEN Get(response_data, "data") ELSE PyNone,
      error |-> IF HasKey(response_data, "error") THEN Get(response_data, "error") ELSE PyNone ]

\* Retry(total=max_retries, status_forcelist=[429, 500, 502, 503, 504],
\* allowed_methods=["POST"]) mounted on the session of each client
max_retries == 3

status_forcelist == {429, 500, 502, 503, 504}

RetryPost == [kind |-> "retry"]

SessionPostMutant(answer, retries_used) ==
    LET retryable ==
            \/ answer.kind \in {"connect_error", "connect_timeout", "read_timeout"}
            \/ answer.kind = "response" /\ answer.status_code >= 400
    IN  IF retryable /\ retries_used < max_retries THEN RetryPost
        ELSE CASE answer.kind = "connect_error" -> [kind |-> "connection_error"]
               [] answer.kind = "read_timeout" -> [kind |-> "connection_error"]
               [] answer.kind = "connect_timeout" -> [kind |-> "timeout"]
               [] answer.kind = "other_request_error" -> [kind |-> "request_exception"]
               [] answer.kind = "response" ->
                     IF answer.status_code \in status_forcelist
                     THEN [kind |-> "request_exception"]
                     ELSE answer

\* one attempt of session.post that got `answer`, after `retries_used` retries:
\* RetryPost when the adapter sends the request again, else what session.post
\* returns or raises.  A forced status, a connection failure and a timeout all
\* consume the total; once it is used up a forced status surfaces as
\* RetryError, a connect timeout as ConnectTimeout, and a connection error or
\* a read timeout as ConnectionError.
SessionPost(answer, retries_used) ==
    LET retryable ==
            \/ answer.kind \in {"connect_error", "connect_timeout", "read_timeout"}
            \/ answer.kind = "response" /\ answer.status_code \in status_forcelist
    IN  IF retryable /\ retries_used < max_retries THEN RetryPost
        ELSE CASE answer.kind = "connect_error" -> [kind |-> "connection_error"]
               [] answer.kind = "read_timeout" -> [kind |-> "connection_error"]
               [] answer.kind = "connect_timeout" -> [kind |-> "timeout"]
               [] answer.kind = "other_request_error" -> [kind |-> "request_exception"]
               [] answer.kind = "response" ->
                     IF answer.status_code \in status_forcelist
                     THEN [kind |-> "request_exception"]
                     ELSE answer

\* _call_llm_service / _call_rag_service / _call_validation_service after
\* session.post: the exception raised, or NoException and the decoded body
ClassifyPost(outcome) ==
    CASE outcome.kind = "timeout" -> [exc |-> Exc("LLMServiceTimeoutError")]
      [] outcome.kind = "connection_error" -> [exc |-> Exc("LLMServiceError")]
      [] outcome.kind = "request_exception" -> [exc |-> Exc("LLMServiceError")]
      [] outcome.kind = "response" ->
            IF outcome.status_code = 408 \/ outcome.status_code = 504
            THEN [exc |-> Exc("LLMServiceTimeoutError")]
            ELSE IF ~ResponseOk(outcome.status_code)
            THEN [exc |-> [cls |-> "LLMServiceError", status_code |-> outcome.status_code,
                           response_data |-> outcome.body]]
            ELSE [exc |-> NoException, body |-> outcome.body]

(***************************************************************************)
(* Text extraction: LLMService._extract_text_from_response                 *)
(***************************************************************************)
text_fields == << "text", "content", "extracted_text", "result", "answer", "response" >>

LowerCase == << "a", "b", "c", "d", "e", "f", "g", "h", "i", "j", "k", "l", "m",
                "n", "o", "p", "q", "r", "s", "t", "u", "v", "w", "x", "y", "z" >>

UpperCase == << "A", "B", "C", "D", "E", "F", "G", "H", "I", "J", "K", "L", "M",
                "N", "O", "P", "Q", "R", "S", "T", "U", "V", "W", "X", "Y", "Z" >>

IsCased(c) == \E i \in 1..Len(LowerCase) : c = LowerCase[i] \/ c = UpperCase[i]

LetterIndex(c) == CHOOSE i \in 1..Len(LowerCase) : c = LowerCase[i] \/ c = UpperCase[i]

\* str.replace('_', ' ')
ReplaceUnderscore(s) == [i \in 1..Len(s) |-> IF s[i] = "_" THEN " " ELSE s[i]]

\* str.title(): a cased character is upper-cased after an uncased one (or at
\* the start) and lower-cased after a cased one
Title(s) ==
    [i \in 1..Len(s) |->
        IF ~IsCased(s[i]) THEN s[i]
        ELSE IF i > 1 /\ IsCased(s[i - 1]) THEN LowerCase[LetterIndex(s[i])]
        ELSE UpperCase[LetterIndex(s[i])]]

\* "\n".join(parts)
RECURSIVE JoinLines(_)
JoinLines(parts) ==
    IF parts = << >> THEN << >>
    ELSE IF Len(parts) = 1 THEN parts[1]
    ELSE parts[1] \o << "\n" >> \o JoinLines(Tail(parts))

\* f"{key.replace('_', ' ').title()}: {value}" for every item, in dict order
AgentResponseParts(agent_resp) ==
    [i \in 1..Len(agent_resp.items) |->
        Title(ReplaceUnderscore(agent_resp.items[i][1])) \o << ":", " " >>
            \o Str(agent_resp.items[i][2])]

ProbeTextFieldsMutant(d, fields) ==
    LET present == { i \in 1..Len(fields) : HasKey(d, fields[i]) } IN
    IF present = {} THEN << >>
    ELSE Str(Get(d, fields[CHOOSE i \in present : \A j \in present : j <= i]))

\* for field in text_fields: if field in d: extracted_text = str(d[field]); break
RECURSIVE ProbeTextFields(_, _)
ProbeTextFields(d, fields) ==
    IF fields = << >> THEN << >>
    ELSE IF HasKey(d, Head(fields)) THEN Str(Get(d, Head(fields)))
    ELSE ProbeTextFields(d, Tail(fields))

\* the "results" fallback
ProbeResults(data) ==
    IF ~HasKey(data, "results") THEN << >>
    ELSE LET results == Get(data, "results") IN
         IF results.t = "list" /\ results.elems # << >> /\ results.elems[1].t = "dict"
         THEN ProbeTextFields(results.elems[1], text_fields)
         ELSE << >>

\* the "responses -> agent_response" fallback
ProbeResponses(data) ==
    IF ~HasKey(data, "responses") THEN << >>
    ELSE LET responses == Get(data, "responses") IN
         IF responses.t = "dict" /\ HasKey(responses, "agent_response")
            /\ Get(responses, "agent_response").t = "dict"
         THEN JoinLines(AgentResponseParts(Get(responses, "agent_response")))
         ELSE << >>

\* extracted_text before the final emptiness check
CandidateText(data) ==
    IF data.t = "dict"
    THEN LET direct == ProbeTextFields(data, text_fields) IN
         IF direct # << >> THEN direct
         ELSE LET nested == ProbeResults(data) IN
              IF nested # << >> THEN nested
              ELSE ProbeResponses(data)
    ELSE IF data.t = "str" THEN data.s
    ELSE << >>

ExtractTextFromResponseMutant(dto) ==
    IF Truthy(dto.error)
    THEN IF dto.error.t = "dict"
         THEN [exc |-> Exc("TextExtractionError")]
         ELSE [exc |-> Exc("AttributeError")]
    ELSE IF ~Truthy(dto.data) THEN [exc |-> Exc("TextExtractionError")]
    ELSE LET extracted_text == CandidateText(dto.data) IN
         IF extracted_text = << >>
         THEN [exc |-> Exc("TextExtractionError")]
         ELSE [exc |-> NoException, text |-> extracted_text]

\* _extract_text_from_response: the exception raised, or the stripped text
ExtractTextFromResponse(dto) ==
    IF Truthy(dto.error)
    THEN IF dto.error.t = "dict"
         THEN [exc |-> Exc("TextExtractionError")]
         ELSE [exc |-> Exc("AttributeError")]    \* error.get on a non-mapping
    ELSE IF ~Truthy(dto.data) THEN [exc |-> Exc("TextExtractionError")]
    ELSE LET extracted_text == CandidateText(dto.data) IN
         IF extracted_text = << >> \/ Strip(extracted_text) = << >>
         THEN [exc |-> Exc("TextExtractionError")]
         ELSE [exc |-> NoException, text |-> Strip(extracted_text)]

(***************************************************************************)
(* Compliance verdict: ValidationResponseFormatterService                  *)
(***************************************************************************)
\* dict.get(key, default)
GetOr(d, k, default) == IF HasKey(d, k) THEN Get(d, k) ELSE default

\* str.lower()
Lower(s) == [i \in 1..Len(s) |-> IF IsCased(s[i]) THEN LowerCase[LetterIndex(s[i])] ELSE s[i]]

\* ValidationResponseDTO.from_dict(...).to_dict(): the keys whose value is not None
ValidationResponseToDict(body) ==
    PyDict(SelectSeq(body.items, LAMBDA item : item[2] # PyNone))

ParseFailed(error) == [success |-> FALSE, error |-> error]

\* parse_validation_response
ParseValidationResponseMutant(validation_response) ==
    IF ~Truthy(validation_response)
       \/ GetOr(validation_response, "status", PyNone) # PyStr(<< "s", "u", "c", "c", "e", "s", "s" >>)
    THEN ParseFailed("Validation failed or returned error status")
    ELSE LET answer == GetOr(validation_response, "answer", PyDict(<< >>)) IN
         IF answer.t # "dict" THEN ParseFailed("Failed to parse validation response")
         ELSE LET agent_response == GetOr(answer, "agent_response", PyDict(<< >>)) IN
              IF agent_response.t # "dict" THEN ParseFailed("Failed to parse validation response")
              ELSE LET compliance == GetOr(agent_response, "compliance",
                                           PyStr(<< "f", "a", "l", "s", "e" >>)) IN
                   IF compliance.t # "str" THEN ParseFailed("Failed to parse validation response")
                   ELSE [ success |-> TRUE,
                          compliance |->
                            [ is_compliant |-> compliance.s = << "t", "r", "u", "e" >>,
                              coverage_percent |->
                                GetOr(agent_response, "coverage_percent", PyInt(0)),
                              matched_count |->
                                GetOr(agent_response, "matched_count", PyInt(0)),
                              partial_count |->
                                GetOr(agent_response, "partial_count", PyInt(0)),
                              total_required |->
                                GetOr(agent_response, "total_required", PyInt(0)) ],
                          issues |->
                            [ missing_items |->
                                GetOr(agent_response, "missing_items", PyList(<< >>)),
                              partial_matches |->
                                GetOr(agent_response, "partial_matches", PyList(<< >>)),
                              conflicts |->
                                GetOr(agent_response, "conflicts", PyList(<< >>)) ],
                          evidence |-> GetOr(agent_response, "evidence", PyDict(<< >>)),
                          notes |-> GetOr(agent_response, "notes", PyStr(<< >>)),
                          references |-> GetOr(answer, "references", PyList(<< >>)) ]

ParseValidationResponse(validation_response) ==
    IF ~Truthy(validation_response)
       \/ GetOr(validation_response, "status", PyNone) # PyStr(<< "s", "u", "c", "c", "e", "s", "s" >>)
    THEN ParseFailed("Validation failed or returned error status")
    ELSE LET answer == GetOr(validation_response, "answer", PyDict(<< >>)) IN
         IF answer.t # "dict" THEN ParseFailed("Failed to parse validation response")
         ELSE LET agent_response == GetOr(answer, "agent_response", PyDict(<< >>)) IN
              IF agent_response.t # "dict" THEN ParseFailed("Failed to parse validation response")
              ELSE LET compliance == GetOr(agent_response, "compliance",
                                           PyStr(<< "f", "a", "l", "s", "e" >>)) IN
                   IF compliance.t # "str" THEN ParseFailed("Failed to parse validation response")
                   ELSE [ success |-> TRUE,
                          compliance |->
                            [ is_compliant |-> Lower(compliance.s) = << "t", "r", "u", "e" >>,
                              coverage_percent |->
                                GetOr(agent_response, "coverage_percent", PyInt(0)),
                              matched_count |->
                                GetOr(agent_response, "matched_count", PyInt(0)),
                              partial_count |->
                                GetOr(agent_response, "partial_count", PyInt(0)),
                              total_required |->
                                GetOr(agent_response, "total_required", PyInt(0)) ],
                          issues |->
                            [ missing_items |->
                                GetOr(agent_response, "missing_items", PyList(<< >>)),
                              partial_matches |->
                                GetOr(agent_response, "partial_matches", PyList(<< >>)),
                              conflicts |->
                                GetOr(agent_response, "conflicts", PyList(<< >>)) ],
                          evidence |-> GetOr(agent_response, "evidence", PyDict(<< >>)),
                          notes |-> GetOr(agent_response, "notes", PyStr(<< >>)),
                          references |-> GetOr(answer, "references", PyList(<< >>)) ]

(***************************************************************************)
(* ValidationController.process_full_validation                            *)
(***************************************************************************)
\* str(e)
ErrorText(exc) == exc.cls

\* the dict process_full_validation returns: the formatter raising, the
\* compliance call raising, or the parsed verdict wrapped in success=True
ProcessFullValidation(formatter_raises, outcome) ==
    IF formatter_raises THEN [success |-> FALSE, error |-> ErrorText(Exc("RuntimeError"))]
    ELSE LET post == ClassifyPost(outcome) IN
         IF post.exc # NoException
         THEN [success |-> FALSE, error |-> ErrorText(post.exc)]
         ELSE [ success |-> TRUE,
                validation_result |->
                    ParseValidationResponse(ValidationResponseToDict(post.body)) ]

(***************************************************************************)
(* RAGController.process_extracted_text_for_regulations                    *)
(***************************************************************************)
\* RAGResponseDTO.from_dict
RAGResponseDTO(response_data) ==
    [ answer  |-> GetOr(response_data, "answer", PyNone),
      sources |-> GetOr(response_data, "sources", PyList(<< >>)) ]

\* the result dict built right after the regulations query returned
RagBaseResult(dto) ==
    [success |-> TRUE, regulations |-> dto.answer, sources |-> dto.sources]

IsBlankAnswerMutant(answer) == answer = PyNone

\* rag_result.answer is None or (isinstance(answer, str) and answer.strip() == "")
IsBlankAnswer(answer) ==
    \/ answer = PyNone
    \/ answer.t = "str" /\ Strip(answer.s) = << >>

NoRegulationsError == "No regulations found for the specified product and destination."

NoRegulationsFrontendMessage == "Unable to find regulations for this product and destination."

RagNoRegulationsMutant(res) ==
    [res EXCEPT !.success = FALSE]
        @@ [validation_error |-> NoRegulationsError,
            frontend_message |-> NoRegulationsFrontendMessage]

\* result["success"] = False; result["error"] = ...; result["frontend_message"] = ...
RagNoRegulations(res) ==
    [res EXCEPT !.success = FALSE]
        @@ [error |-> NoRegulationsError, frontend_message |-> NoRegulationsFrontendMessage]

\* the outer except: {"success": False, "error": str(e)}
RagFailure(exc) == [success |-> FALSE, error |-> ErrorText(exc)]

ApplyValidationResultMutant(res, validation_result) ==
    IF validation_result.success
    THEN [validation |-> validation_result] @@ res
    ELSE [validation_error |-> validation_result.error] @@ [res EXCEPT !.success = FALSE]

\* result["validation"] = validation_result, or result["validation_error"] = its error
ApplyValidationResult(res, validation_result) ==
    IF validation_result.success
    THEN [validation |-> validation_result] @@ res
    ELSE [validation_error |-> validation_result.error] @@ res

(***************************************************************************)
(* LLMService.extract_text_from_image after the text is extracted          *)
(***************************************************************************)
\* len(encoded_image) of the base64 text of `size` bytes
EncodedLength(size) == 4 * ((size + 2) \div 3)

\* 'media_type': image_request.media_type, 'size_estimate': len(encoded_image)
ImageMetadata(image_request) ==
    [ media_type    |-> image_request.media_type,
      size_estimate |-> EncodedLength(image_request.encoded_image.size) ]

\* TextExtractionResponseDTO(extracted_text=..., ...): the optional fields are None
TextExtractionResponseDTO(extracted_text, processing_time_ms, image_metadata) ==
    [ extracted_text    |-> extracted_text,
      processing_time_ms |-> PyInt(processing_time_ms),
      image_metadata    |-> image_metadata,
      compliance_result |-> PyNone,
      rag_result        |-> PyNone,
      pdf_report        |-> PyNone ]

\* d.get(key) on a dict the controllers built
Field(d, k) == IF k \in DOMAIN d THEN d[k] ELSE PyNone

\* compliance_result when rag_result carries "validation"
ComplianceFromValidation(validation_data) ==
    LET validation_result ==
            IF "validation_result" \in DOMAIN validation_data
            THEN validation_data.validation_result ELSE << >>
        compliance_data ==
            IF "compliance" \in DOMAIN validation_result
            THEN validation_result.compliance ELSE << >>
    IN  [ is_compliant |->
              IF "is_compliant" \in DOMAIN compliance_data
              THEN compliance_data.is_compliant ELSE FALSE,
          coverage_percent |->
              IF "coverage_percent" \in DOMAIN compliance_data
              THEN compliance_data.coverage_percent ELSE PyInt(0),
          validation_successful |-> TRUE,
          ready_for_pdf |-> TRUE ]

AttachRagResultMutant(res, rr) ==
    [res EXCEPT !.rag_result = rr,
                !.compliance_result = [validation_successful |-> TRUE, ready_for_pdf |-> TRUE]]

\* the branches on the dict the RAG controller returned
AttachRagResult(res, rr) ==
    IF rr.success
    THEN IF "validation" \in DOMAIN rr
         THEN [res EXCEPT !.rag_result = rr,
                          !.compliance_result = ComplianceFromValidation(rr.validation)]
         ELSE IF "validation_error" \in DOMAIN rr
         THEN [res EXCEPT !.rag_result = rr,
                          !.compliance_result =
                              [ validation_successful |-> FALSE,
                                error |-> rr.validation_error,
                                ready_for_pdf |-> FALSE ]]
         ELSE [res EXCEPT !.rag_result = rr]
    ELSE [res EXCEPT !.compliance_result =
              [ rag_successful |-> FALSE,
                error |-> Field(rr, "error"),
                frontend_message |-> Field(rr, "frontend_message"),
                ready_for_pdf |-> FALSE ]]

(***************************************************************************)
(* ImageController.extract_text                                            *)
(***************************************************************************)
\* result.compliance_result and result.compliance_result.get('ready_for_pdf')
\* and hasattr(result, 'rag_result')
ShouldGeneratePdf(res) ==
    /\ res.compliance_result # PyNone
    /\ "ready_for_pdf" \in DOMAIN res.compliance_result
    /\ res.compliance_result.ready_for_pdf
    /\ "rag_result" \in DOMAIN res

ApplyPdfResultMutant(res, pdf) ==
    CASE pdf.kind = "generated" ->
            [res EXCEPT !.pdf_report = [filename |-> pdf.filename],
                        !.image_metadata = [report |-> pdf.filename] @@ @,
                        !.compliance_result =
                            [pdf_generated |-> TRUE, pdf_filename |-> pdf.filename] @@ @]
      [] pdf.kind = "failed" ->
            [res EXCEPT !.compliance_result = [pdf_error |-> pdf.error] @@ @]
      [] pdf.kind = "raised" ->
            [res EXCEPT !.compliance_result = [pdf_error |-> ErrorText(pdf.exc)] @@ @]

\* the three outcomes of the PDF step
ApplyPdfResult(res, pdf) ==
    CASE pdf.kind = "generated" ->
            [res EXCEPT !.pdf_report = [filename |-> pdf.filename],
                        !.compliance_result =
                            [pdf_generated |-> TRUE, pdf_filename |-> pdf.filename] @@ @]
      [] pdf.kind = "failed" ->
            [res EXCEPT !.compliance_result = [pdf_error |-> pdf.error] @@ @]
      [] pdf.kind = "raised" ->
            [res EXCEPT !.compliance_result = [pdf_error |-> ErrorText(pdf.exc)] @@ @]

\* BaseDTO.to_dict: the fields that are not None (extracted_text is a str)
ToDict(res) ==
    [k \in { f \in DOMAIN res : f = "extracted_text" \/ res[f] # PyNone } |-> res[k]]

\* _success_response
SuccessResponse(data) == [status |-> "success", status_code |-> 200, data |-> data]

ErrorResponse(status_code, type) ==
    [status |-> "error", status_code |-> status_code, error |-> [type |-> type]]

\* _bad_request_response
BadRequestResponse == ErrorResponse(400, "BadRequest")

ExceptHandlersMutant ==
    << [cls |-> "Base64ValidationError",     response |-> BadRequestResponse],
       [cls |-> "ImageSizeError",            response |-> BadRequestResponse],
       [cls |-> "UnsupportedImageTypeError", response |-> BadRequestResponse],
       [cls |-> "ImageProcessingError",      response |-> BadRequestResponse],
       [cls |-> "LLMServiceError",           response |-> ErrorResponse(503, "ServiceUnavailable")],
       [cls |-> "LLMServiceTimeoutError",    response |-> ErrorResponse(408, "RequestTimeout")],
       [cls |-> "TextExtractionError",       response |-> ErrorResponse(422, "UnprocessableEntity")],
       [cls |-> "Exception",                 response |-> ErrorResponse(500, "InternalServerError")] >>

\* the except clauses of extract_text, in source order
ExceptHandlers ==
    << [cls |-> "Base64ValidationError",     response |-> BadRequestResponse],
       [cls |-> "ImageSizeError",            response |-> BadRequestResponse],
       [cls |-> "UnsupportedImageTypeError", response |-> BadRequestResponse],
       [cls |-> "ImageProcessingError",      response |-> BadRequestResponse],
       [cls |-> "LLMServiceTimeoutError",    response |-> ErrorResponse(408, "RequestTimeout")],
       [cls |-> "LLMServiceError",           response |-> ErrorResponse(503, "ServiceUnavailable")],
       [cls |-> "TextExtractionError",       response |-> ErrorResponse(422, "UnprocessableEntity")],
       [cls |-> "Exception",                 response |-> ErrorResponse(500, "InternalServerError")] >>

\* the first except clause whose class the exception is an instance of
RECURSIVE Dispatch(_, _)
Dispatch(exc, handlers) ==
    IF IsInstance(exc.cls, Head(handlers).cls) THEN Head(handlers).response
    ELSE Dispatch(exc, Tail(handlers))

HandleException(exc) == Dispatch(exc, ExceptHandlers)

(***************************************************************************)
(* What the external collaborators can answer                              *)
(***************************************************************************)
\* what one attempt can meet instead of a response
PostFailures ==
    { [kind |-> "connect_error"], [kind |-> "connect_timeout"], [kind |-> "read_timeout"],
      [kind |-> "other_request_error"] }

Response(status_code, body) == [kind |-> "response", status_code |-> status_code, body |-> body]

ErrorStatuses == {400, 408, 500, 504}

ErrorResponses == { Response(st, PyDict(<< >>)) : st \in ErrorStatuses }

LabelText == << "L", "a", "b", "e", "l" >>

VisionBodies ==
    { PyDict(<< << "data", PyDict(<< << "text", PyStr(LabelText) >> >>) >> >>),
      PyDict(<< << "data", PyDict(<< << "text", PyStr(<< " " >>) >> >>) >> >>),
      PyDict(<< << "data", PyDict(<< << "results",
                    PyList(<< PyDict(<< << "answer", PyStr(LabelText) >> >>) >>) >> >>) >> >>),
      PyDict(<< << "error", PyDict(<< << "message", PyStr(<< "x" >>) >> >>) >> >>),
      PyDict(<< << "error", PyStr(<< "x" >>) >> >>),
      PyDict(<< >>) }

VisionOutcomes ==
    PostFailures \cup ErrorResponses \cup { Response(200, b) : b \in VisionBodies }

RulesText == << "R", "u", "l", "e", "s" >>

SourceList == PyList(<< PyStr(<< "d", "o", "c" >>) >>)

RagBodies ==
    { PyDict(<< << "answer", PyStr(RulesText) >>, << "sources", SourceList >> >>),
      PyDict(<< << "answer", PyStr(RulesText) >> >>),
      PyDict(<< << "answer", PyStr(<< >>) >>, << "sources", SourceList >> >>),
      PyDict(<< << "answer", PyStr(<< " ", "\n" >>) >> >>),
      PyDict(<< << "answer", PyNone >>, << "sources", SourceList >> >>),
      PyDict(<< >>) }

RagOutcomes ==
    PostFailures \cup ErrorResponses \cup { Response(200, b) : b \in RagBodies }

SuccessStatus == PyStr(<< "s", "u", "c", "c", "e", "s", "s" >>)

Verdict(compliance, coverage) ==
    PyDict(<< << "status", SuccessStatus >>,
              << "answer", PyDict(<< << "agent_response",
                    PyDict(<< << "compliance", compliance >>,
                              << "coverage_percent", PyInt(coverage) >> >>) >> >>) >> >>)

ValidationBodies ==
    { Verdict(PyStr(<< "t", "r", "u", "e" >>), 8),
      Verdict(PyStr(<< "T", "r", "u", "e" >>), 8),
      Verdict(PyStr(<< "f", "a", "l", "s", "e" >>), 3),
      Verdict(PyInt(1), 3),
      PyDict(<< << "status", SuccessStatus >> >>),
      PyDict(<< << "status", PyStr(<< "e", "r", "r", "o", "r" >>) >> >>),
      PyDict(<< << "answer", PyDict(<< >>) >> >>),
      PyDict(<< >>) }

ValidationOutcomes ==
    PostFailures \cup ErrorResponses \cup { Response(200, b) : b \in ValidationBodies }

PdfOutcomes ==
    { [kind |-> "generated", filename |-> "compliance_report.pdf"],
      [kind |-> "failed", error |-> "pdf build failed"],
      [kind |-> "raised", exc |-> Exc("RuntimeError")] }

\* int((time.time() - start_time) * 1000) as the clock can make it
ProcessingTimes == {0, 1520}

\* rag_controller / validation_controller injected or None
Wirings ==
    { [rag |-> FALSE, validation |-> FALSE],
      [rag |-> TRUE,  validation |-> FALSE],
      [rag |-> TRUE,  validation |-> TRUE] }

(***************************************************************************)
(* The request as a state machine                                          *)
(***************************************************************************)
Init ==
    /\ pc = "start"
    /\ wiring \in Wirings
    /\ users = NotRun
    /\ request \in Requests
    /\ llm_response = NotRun
    /\ result = NotRun
    /\ rag_response = NotRun
    /\ rag_result = NotRun
    /\ validation = NotRun
    /\ pdf_result = NotRun
    /\ calls = << >>
    /\ attempts = [vision |-> 0, regulations |-> 0, compliance |-> 0]
    /\ last_post = NotRun
    /\ raised = NoException
    /\ response = NotRun
    /\ fn_in = NotRun
    /\ fn_out = NotRun

\* extract_text_from_image raised: the except clauses of extract_text answer
Abort(exc) ==
    /\ raised' = exc
    /\ response' = HandleException(exc)
    /\ pc' = "done"

\* extract_text_from_image returned res: extract_text decides on the PDF step
ReturnResult(res) ==
    /\ result' = res
    /\ IF ShouldGeneratePdf(res)
       THEN pc' = "pdf_call" /\ response' = NotRun
       ELSE pc' = "done" /\ response' = SuccessResponse(ToDict(res))

\* extract_text up to the POST to the vision endpoint
ExtractTextRequest ==
    /\ pc = "start"
    /\ IF ~request.has_encoded_image
       THEN /\ response' = BadRequestResponse
            /\ pc' = "done"
            /\ raised' = raised
       ELSE LET exc == ValidateImageData(ImageUploadRequestDTO(request)) IN
            IF exc # NoException
            THEN Abort(exc)
            ELSE /\ pc' = "llm_call"
                 /\ UNCHANGED << raised, response >>
    /\ UNCHANGED << users, wiring, request, llm_response, result, rag_response, rag_result,
                    validation, pdf_result, calls, attempts, last_post, fn_in, fn_out >>

\* one POST goes out to the endpoint of `stage` and meets `answer`
Attempt(stage, answer) ==
    LET outcome == SessionPost(answer, attempts[stage]) IN
    /\ attempts' = [attempts EXCEPT ![stage] = @ + 1]
    /\ calls' = IF attempts[stage] = 0 THEN Append(calls, stage) ELSE calls
    /\ last_post' =
          [ stage   |-> stage,
            answer  |-> answer,
            retried |-> outcome.kind = "retry",
            exc     |-> IF outcome.kind = "retry" THEN NoException
                        ELSE ClassifyPost(outcome).exc ]

\* the POST to the vision endpoint and the code up to the regulations query
CallLLMService(answer, processing_time) ==
    /\ pc = "llm_call"
    /\ Attempt("vision", answer)
    /\ LET outcome == SessionPost(answer, attempts.vision)
           post == ClassifyPost(outcome)
       IN
       IF outcome.kind = "retry"
       THEN UNCHANGED << pc, llm_response, result, raised, response >>
       ELSE IF post.exc # NoException
       THEN Abort(post.exc) /\ UNCHANGED << llm_response, result >>
       ELSE LET dto == LLMResponseDTO(post.body)
                ext == ExtractTextFromResponse(dto)
            IN  /\ llm_response' = dto
                /\ IF ext.exc # NoException
                   THEN Abort(ext.exc) /\ result' = result
                   ELSE LET res == TextExtractionResponseDTO(ext.text, processing_time,
                                       ImageMetadata(ImageUploadRequestDTO(request))) IN
                        IF wiring.rag
                        THEN /\ result' = res
                             /\ pc' = "rag_call"
                             /\ UNCHANGED << raised, response >>
                        ELSE ReturnResult(res) /\ raised' = raised
    /\ UNCHANGED << users, wiring, request, rag_response, rag_result, validation, pdf_result,
                    fn_in, fn_out >>

\* the POST to the regulations endpoint and the code up to the compliance call
QueryRegulations(answer) ==
    /\ pc = "rag_call"
    /\ Attempt("regulations", answer)
    /\ LET outcome == SessionPost(answer, attempts.regulations)
           post == ClassifyPost(outcome)
       IN
       IF outcome.kind = "retry"
       THEN UNCHANGED << pc, rag_response, rag_result, result, response >>
       ELSE IF post.exc # NoException
       THEN /\ rag_result' = RagFailure(post.exc)
            /\ rag_response' = rag_response
            /\ ReturnResult(AttachRagResult(result, rag_result'))
       ELSE LET dto == RAGResponseDTO(post.body)
                base == RagBaseResult(dto)
            IN  /\ rag_response' = dto
                /\ IF IsBlankAnswer(dto.answer)
                   THEN /\ rag_result' = RagNoRegulations(base)
                        /\ ReturnResult(AttachRagResult(result, rag_result'))
                   ELSE IF wiring.validation
                   THEN /\ rag_result' = base
                        /\ pc' = "validation_call"
                        /\ UNCHANGED << result, response >>
                   ELSE /\ rag_result' = base
                        /\ ReturnResult(AttachRagResult(result, rag_result'))
    /\ UNCHANGED << users, wiring, request, llm_response, validation, pdf_result, raised,
                    fn_in, fn_out >>

\* process_full_validation returned validation_result: back through the RAG
\* controller and the LLM service to extract_text
AfterValidation(formatter_raised, outcome, validation_result) ==
    /\ validation' = [ formatter_raised |-> formatter_raised,
                       outcome |-> outcome,
                       returned |-> validation_result ]
    /\ rag_result' = ApplyValidationResult(rag_result, validation_result)
    /\ ReturnResult(AttachRagResult(result, rag_result'))
    /\ UNCHANGED << users, wiring, request, llm_response, rag_response, pdf_result, raised,
                    fn_in, fn_out >>

\* format_validation_query raises: no POST is sent
FormatterRaises ==
    /\ pc = "validation_call"
    /\ UNCHANGED << calls, attempts, last_post >>
    /\ AfterValidation(TRUE, NotRun, ProcessFullValidation(TRUE, NotRun))

\* the POST to the compliance endpoint and the code up to the PDF step
ValidateCompliance(answer) ==
    /\ pc = "validation_call"
    /\ Attempt("compliance", answer)
    /\ LET outcome == SessionPost(answer, attempts.compliance) IN
       IF outcome.kind = "retry"
       THEN UNCHANGED << pc, users, wiring, request, llm_response, result, rag_response,
                         rag_result, validation, pdf_result, raised, response,
                         fn_in, fn_out >>
       ELSE AfterValidation(FALSE, outcome, ProcessFullValidation(FALSE, outcome))

\* generate_compliance_report and the rest of extract_text
GeneratePdf(outcome) ==
    /\ pc = "pdf_call"
    /\ calls' = Append(calls, "pdf")
    /\ pdf_result' = outcome
    /\ result' = ApplyPdfResult(result, outcome)
    /\ response' = SuccessResponse(ToDict(result'))
    /\ pc' = "done"
    /\ UNCHANGED << users, wiring, request, llm_response, rag_response, rag_result, validation,
                    attempts, last_post, raised, fn_in, fn_out >>

Next ==
    \/ ExtractTextRequest
    \/ \E outcome \in VisionOutcomes, processing_time \in ProcessingTimes :
           CallLLMService(outcome, processing_time)
    \/ \E outcome \in RagOutcomes : QueryRegulations(outcome)
    \/ FormatterRaises
    \/ \E outcome \in ValidationOutcomes : ValidateCompliance(outcome)
    \/ \E outcome \in PdfOutcomes : GeneratePdf(outcome)

Spec == Init /\ [][Next]_vars

(***************************************************************************)
(* Properties of the request pipeline                                      *)
(***************************************************************************)
Called(name) == \E i \in 1..Len(calls) : calls[i] = name

Returned == pc \in {"pdf_call", "done"}

AllWhitespace(s) == \A i \in 1..Len(s) : s[i] \in Whitespace

\* the regulations endpoint answered with a usable answer
RegulationsAnswered ==
    /\ rag_response # NotRun
    /\ rag_response.answer # PyNone
    /\ rag_response.answer.t = "str" => ~AllWhitespace(rag_response.answer.s)

\* the compliance endpoint was called and the call returned a body
ComplianceAnswered ==
    /\ validation # NotRun
    /\ ~validation.formatter_raised
    /\ validation.outcome.kind = "response"
    /\ validation.outcome.status_code \in 200..399
    /\ validation.outcome.status_code \notin {408, 504}

\* what parse_validation_response reported for that body
VerdictParsed ==
    ParseValidationResponse(ValidationResponseToDict(validation.outcome.body)).success

ReadyForPdf ==
    /\ result # NotRun
    /\ result.compliance_result # PyNone
    /\ "ready_for_pdf" \in DOMAIN result.compliance_result
    /\ result.compliance_result.ready_for_pdf

\* C1: the PDF report is attempted, and ready_for_pdf is true, only in runs
\* where the regulations query returned a non-empty answer and the compliance
\* call returned without exception and parse_validation_response reported
\* success=true.
C1_PdfOnlyAfterFullValidation ==
    (Called("pdf") \/ ReadyForPdf) =>
        (RegulationsAnswered /\ ComplianceAnswered /\ VerdictParsed)

\* C2: when the compliance endpoint answers and the verdict parse reports
\* success=false, the RAG controller returns the regulations result
\* (success=true, answer, sources) with a validation_error field and without
\* a validation entry.
C2_ParseFailureAnnotated ==
    (Returned /\ ComplianceAnswered /\ ~VerdictParsed) =>
        /\ rag_result.success
        /\ rag_result.regulations = rag_response.answer
        /\ rag_result.sources = rag_response.sources
        /\ "validation_error" \in DOMAIN rag_result
        /\ "validation" \notin DOMAIN rag_result

\* the compliance call or the validation-query formatter raised
ValidationRaised ==
    /\ validation # NotRun
    /\ \/ validation.formatter_raised
       \/ validation.outcome.kind \in {"timeout", "connection_error", "request_exception"}
       \/ /\ validation.outcome.kind = "response"
          /\ validation.outcome.status_code >= 400

\* C3: if the compliance call or the validation-query formatter raises after
\* a successful regulations query, the RAG controller does not raise: its
\* result keeps success=true with the regulations answer and sources and
\* gains a string validation_error field (and no validation entry).
C3_ValidationExceptionKeepsRegulations ==
    ValidationRaised =>
        /\ Returned
        /\ raised = NoException
        /\ rag_result.success
        /\ rag_result.regulations = rag_response.answer
        /\ rag_result.sources = rag_response.sources
        /\ "validation_error" \in DOMAIN rag_result
        /\ rag_result.validation_error \in STRING
        /\ "validation" \notin DOMAIN rag_result

C3_Witness ==
    /\ ValidationRaised
    /\ validation.outcome = [kind |-> "timeout"]
    /\ rag_result.success
    /\ rag_result.regulations = PyStr(RulesText)

\* the regulations query returned None, "" or whitespace only
RegulationsBlank ==
    /\ rag_response # NotRun
    /\ \/ rag_response.answer = PyNone
       \/ rag_response.answer.t = "str" /\ AllWhitespace(rag_response.answer.s)

\* C4: when the regulations answer is None, empty or whitespace-only, the RAG
\* controller returns success=false with error and frontend_message, raises
\* nothing, and neither process_full_validation nor the compliance endpoint
\* is called in that run.
C4_BlankAnswerSkipsValidation ==
    RegulationsBlank =>
        /\ Returned
        /\ raised = NoException
        /\ ~rag_result.success
        /\ "error" \in DOMAIN rag_result
        /\ "frontend_message" \in DOMAIN rag_result
        /\ validation = NotRun
        /\ ~Called("compliance")

C4_Witness ==
    /\ RegulationsBlank
    /\ rag_response.answer = PyStr(<< " ", "\n" >>)
    /\ wiring.validation
    /\ pc = "done"

\* a stage after the text extraction failed
RegulationsFailed ==
    /\ rag_result # NotRun
    /\ Returned
    /\ \/ rag_response = NotRun
       \/ RegulationsBlank

ValidationFailed ==
    \/ ValidationRaised
    \/ ComplianceAnswered /\ ~VerdictParsed

PdfFailed == pdf_result # NotRun /\ pdf_result.kind \in {"failed", "raised"}

FailureRecorded ==
    /\ result.compliance_result # PyNone
    /\ \/ "error" \in DOMAIN result.compliance_result
       \/ "pdf_error" \in DOMAIN result.compliance_result

\* once the text is extracted the request ends with status success / 200
C5_StatusStaysSuccess ==
    (pc = "done" /\ result # NotRun) =>
        /\ raised = NoException
        /\ response.status = "success"
        /\ response.status_code = 200
        /\ response.data.extracted_text = result.extracted_text

\* C5: once text extraction has succeeded, any failure of a later stage leaves
\* extract_text returning status "success", status_code 200 and the
\* extracted_text, and the failure is recorded as a field (error / pdf_error)
\* of compliance_result, never as an exception or an error status.
C5_LaterFailuresRecorded ==
    /\ C5_StatusStaysSuccess
    /\ (pc = "done" /\ result # NotRun
            /\ (RegulationsFailed \/ ValidationFailed \/ PdfFailed))
        => FailureRecorded

\* the status code the error taxonomy gives an exception class
TaxonomyStatus(cls) ==
    CASE cls \in {"Base64ValidationError", "ImageSizeError", "UnsupportedImageTypeError"} -> 400
      [] cls = "LLMServiceTimeoutError" -> 408
      [] cls = "LLMServiceError" -> 503
      [] cls = "TextExtractionError" -> 422
      [] OTHER -> 500

\* C6: an error raised by the extraction stage aborts the request and is
\* mapped to exactly one status_code: Base64ValidationError, ImageSizeError,
\* UnsupportedImageTypeError -> 400; LLMServiceTimeoutError -> 408; any other
\* LLMServiceError -> 503; TextExtractionError -> 422; anything else -> 500.
C6_ExtractionErrorStatus ==
    raised # NoException =>
        /\ pc = "done"
        /\ result = NotRun
        /\ ~Called("regulations")
        /\ response.status = "error"
        /\ response.status_code = TaxonomyStatus(raised.cls)

C6_Witness ==
    /\ raised.cls = "LLMServiceTimeoutError"
    /\ response.status_code = 408
    /\ calls = << "vision" >>

StageOrder == << "vision", "regulations", "compliance", "pdf" >>

\* C7: within one request the collaborators are invoked in the order vision,
\* regulations, compliance, PDF renderer, each at most once and none skipped,
\* and a later one only after the call to the previous one returned without
\* an error.
C7_StagesInOrder ==
    /\ Len(calls) <= Len(StageOrder)
    /\ \A i \in 1..Len(calls) : calls[i] = StageOrder[i]
    /\ Called("regulations") =>
          llm_response # NotRun /\ result # NotRun /\ raised = NoException
    /\ Called("compliance") => rag_response # NotRun /\ RegulationsAnswered
    /\ Called("pdf") => ComplianceAnswered

C7_Witness ==
    /\ calls = StageOrder
    /\ pc = "done"
    /\ pdf_result.kind = "generated"

\* the checks of the image data in the order the claim gives them; a check
\* that needs the decoded bytes cannot fail when there are none
CheckFails(i, e) ==
    CASE i = 1 -> e.kind \in {"none", "empty"}
      [] i = 2 -> e.kind = "undecodable"
      [] i = 3 -> e.kind = "image" /\ e.size > 5 * 1024 * 1024
      [] i = 4 -> e.kind = "image" /\ e.sniffed \notin {"jpeg", "jpg", "png"}

CheckError ==
    << "Base64ValidationError", "Base64ValidationError", "ImageSizeError",
       "UnsupportedImageTypeError" >>

FailingChecks(e) == { i \in 1..4 : CheckFails(i, e) }

InputErrors == {"Base64ValidationError", "ImageSizeError", "UnsupportedImageTypeError"}

\* C8: a request without encoded_image is rejected with 400; otherwise the
\* checks run in the order empty, base64 decode, size, sniffed type, the first
\* failing one decides the exception, and whenever a check fails no POST is
\* sent to the vision endpoint.
C8_FirstFailingCheckWins ==
    pc # "start" =>
        IF ~request.has_encoded_image
        THEN /\ response.status_code = 400
             /\ calls = << >>
        ELSE LET failing == FailingChecks(request.encoded_image) IN
             IF failing = {}
             THEN raised.cls \notin InputErrors
             ELSE /\ raised.cls =
                        CheckError[CHOOSE i \in failing : \A j \in failing : i <= j]
                  /\ response.status_code = 400
                  /\ calls = << >>

C8_Witness ==
    /\ pc = "done"
    /\ request.has_encoded_image
    /\ request.encoded_image.kind = "image"
    /\ FailingChecks(request.encoded_image) = {3, 4}
    /\ raised.cls = "ImageSizeError"
    /\ calls = << >>

\* C9: a payload whose decoded length is exactly 5 * 1024 * 1024 bytes passes
\* the size check; a longer one raises ImageSizeError whose actual_size is the
\* decoded length and whose max_size is the limit in bytes.
C9_SizeBoundary ==
    (pc # "start" /\ request.has_encoded_image /\ request.encoded_image.kind = "image") =>
        IF request.encoded_image.size <= 5 * 1024 * 1024
        THEN raised.cls # "ImageSizeError"
        ELSE /\ raised.cls = "ImageSizeError"
             /\ raised.actual_size = request.encoded_image.size
             /\ raised.max_size = 5 * 1024 * 1024

C9_Witness ==
    /\ pc = "done"
    /\ request.has_encoded_image
    /\ request.encoded_image.kind = "image"
    /\ request.encoded_image.size = 5 * 1024 * 1024 + 1
    /\ raised = ImageSizeError(5 * 1024 * 1024 + 1, 5 * 1024 * 1024)

C9_WitnessExactLimit ==
    /\ pc = "llm_call"
    /\ request.encoded_image.size = 5 * 1024 * 1024
    /\ raised = NoException

(***************************************************************************)
(* _extract_text_from_response on its own, over a family of response shapes *)
(***************************************************************************)
\* how many of the six text fields a top-level data dict of the family holds
MaxTopFields == 2

\* a text that names the field it was stored under
Mark == << "a", "b", "c", "d", "e", "f" >>

TopValues(i) ==
    { PyStr(<< >>), PyStr(<< " " >>), PyStr(<< " ", Mark[i], " " >>), PyInt(0), PyNone }

\* the items of the chosen fields, listed against the priority order
RECURSIVE ItemsDescending(_, _)
ItemsDescending(S, f) ==
    IF S = {} THEN << >>
    ELSE LET i == CHOOSE x \in S : \A y \in S : y <= x IN
         << << text_fields[i], f[i] >> >> \o ItemsDescending(S \ {i}, f)

TopItems ==
    UNION { { ItemsDescending(S, f) :
                f \in { g \in [S -> UNION { TopValues(i) : i \in S }] :
                           \A i \in S : g[i] \in TopValues(i) } } :
            S \in { T \in SUBSET (1..Len(text_fields)) : Cardinality(T) <= MaxTopFields } }

ResultsItems ==
    { << >>,
      << << "results", PyList(<< >>) >> >>,
      << << "results", PyList(<< PyStr(<< "r" >>) >>) >> >>,
      << << "results", PyList(<< PyDict(<< << "answer", PyStr(<< "r", "e" >>) >> >>),
                                 PyDict(<< << "text", PyStr(<< "r", "2" >>) >> >>) >>) >> >>,
      << << "results", PyList(<< PyDict(<< << "response", PyStr(<< "r", "f" >>) >>,
                                           << "content", PyStr(<< "r", "b" >>) >> >>) >>) >> >>,
      << << "results", PyList(<< PyDict(<< << "text", PyStr(<< >>) >>,
                                           << "content", PyStr(<< "r", "b" >>) >> >>) >>) >> >> }

ProductNameKey == << "p", "r", "o", "d", "u", "c", "t", "_", "n", "a", "m", "e" >>

MixedKey == << "i", "d", "2", "x", "Y" >>

ResponsesItems ==
    { << >>,
      << << "responses", PyStr(<< "s" >>) >> >>,
      << << "responses", PyDict(<< << "other", PyStr(<< "s" >>) >> >>) >> >>,
      << << "responses", PyDict(<< << "agent_response", PyStr(<< "s" >>) >> >>) >> >>,
      << << "responses", PyDict(<< << "agent_response", PyDict(<< >>) >> >>) >> >>,
      << << "responses", PyDict(<< << "agent_response",
              PyDict(<< << ProductNameKey, PyStr(<< "j", "a", "m" >>) >> >>) >> >>) >> >>,
      << << "responses", PyDict(<< << "agent_response",
              PyDict(<< << MixedKey, PyInt(7) >>,
                        << ProductNameKey, PyStr(<< "j", "a", "m", " " >>) >> >>) >> >>) >> >> }

MappingResponses ==
    { [data |-> PyDict(top \o res \o resp), error |-> PyNone] :
        top \in TopItems, res \in ResultsItems, resp \in ResponsesItems }

OtherResponses ==
    { [data |-> PyStr(<< " ", "t", " " >>), error |-> PyNone],
      [data |-> PyStr(<< " " >>), error |-> PyNone],
      [data |-> PyList(<< PyStr(<< "t" >>) >>), error |-> PyNone],
      [data |-> PyNone, error |-> PyNone],
      [data |-> PyDict(<< << "text", PyStr(<< "t" >>) >> >>),
       error |-> PyDict(<< << "message", PyStr(<< "m" >>) >> >>)],
      [data |-> PyNone, error |-> PyStr(<< "m" >>)] }

ExtractInputs == MappingResponses \cup OtherResponses

InitExtract ==
    /\ pc = "extract"
    /\ fn_in \in ExtractInputs
    /\ fn_out = NotRun
    /\ wiring = NotRun
    /\ users = NotRun
    /\ request = NotRun
    /\ llm_response = NotRun
    /\ result = NotRun
    /\ rag_response = NotRun
    /\ rag_result = NotRun
    /\ validation = NotRun
    /\ pdf_result = NotRun
    /\ calls = << >>
    /\ attempts = [vision |-> 0, regulations |-> 0, compliance |-> 0]
    /\ last_post = NotRun
    /\ raised = NoException
    /\ response = NotRun

RunExtractText ==
    /\ pc = "extract"
    /\ fn_out' = ExtractTextFromResponse(fn_in)
    /\ pc' = "extracted"
    /\ UNCHANGED << users, wiring, request, llm_response, result, rag_response, rag_result,
                    validation, pdf_result, calls, attempts, last_post, raised,
                    response, fn_in >>

NextExtract == RunExtractText

SpecExtract == InitExtract /\ [][NextExtract]_vars

\* the result of a run that must yield the text t, or an error when t is blank
Yields(t) ==
    IF AllWhitespace(t)
    THEN fn_out.exc.cls = "TextExtractionError"
    ELSE /\ fn_out.exc = NoException
         /\ fn_out.text = Strip(t)

\* str() of the first of the six fields the mapping holds, "" when it holds none
FirstFieldText(d) ==
    LET present == { i \in 1..6 : HasKey(d, text_fields[i]) } IN
    IF present = {} THEN << >>
    ELSE Str(Get(d, text_fields[CHOOSE i \in present : \A j \in present : i <= j]))

ResultsText(d) ==
    IF /\ HasKey(d, "results")
       /\ Get(d, "results").t = "list"
       /\ Len(Get(d, "results").elems) > 0
       /\ Get(d, "results").elems[1].t = "dict"
    THEN FirstFieldText(Get(d, "results").elems[1])
    ELSE << >>

HasAgentResponseMapping(d) ==
    /\ HasKey(d, "responses")
    /\ Get(d, "responses").t = "dict"
    /\ HasKey(Get(d, "responses"), "agent_response")
    /\ Get(Get(d, "responses"), "agent_response").t = "dict"

\* the first n "Title Cased Key: value" lines of a mapping, newline-separated
RECURSIVE SynthesizedLines(_, _)
SynthesizedLines(items, n) ==
    IF n = 0 THEN << >>
    ELSE (IF n = 1 THEN << >> ELSE SynthesizedLines(items, n - 1) \o << "\n" >>)
         \o Title(ReplaceUnderscore(items[n][1])) \o << ":", " " >> \o Str(items[n][2])

\* C10: for a response whose data is a mapping, the text is that of the first
\* top-level field present in the order text, content, extracted_text, result,
\* answer, response; only when that yields nothing, that of the first such
\* field of results[0]; only when that yields nothing too, the lines
\* "Title Cased Key: value" of responses.agent_response in iteration order.
C10_TextFieldPriority ==
    (pc = "extracted" /\ fn_in.error = PyNone /\ fn_in.data.t = "dict" /\ Truthy(fn_in.data)) =>
        LET d == fn_in.data IN
        IF FirstFieldText(d) # << >> THEN Yields(FirstFieldText(d))
        ELSE IF ResultsText(d) # << >> THEN Yields(ResultsText(d))
        ELSE IF HasAgentResponseMapping(d)
             THEN LET items == Get(Get(d, "responses"), "agent_response").items IN
                  Yields(SynthesizedLines(items, Len(items)))
        ELSE fn_out.exc.cls = "TextExtractionError"

C10_Witness ==
    /\ pc = "extracted"
    /\ fn_in.data.t = "dict"
    /\ HasKey(fn_in.data, "content")
    /\ HasKey(fn_in.data, "answer")
    /\ HasKey(fn_in.data, "results")
    /\ fn_out.exc = NoException
    /\ fn_out.text = << "b" >>

C10_WitnessSynthesized ==
    /\ pc = "extracted"
    /\ fn_out.exc = NoException
    /\ fn_out.text = << "I", "d", "2", "X", "y", ":", " ", "7", "\n",
                        "P", "r", "o", "d", "u", "c", "t", " ", "N", "a", "m", "e",
                        ":", " ", "j", "a", "m" >>

(***************************************************************************)
(* Properties of the extraction stage and of the three clients             *)
(***************************************************************************)
\* a decoded 2xx body of the vision endpoint that gives no usable text: an
\* error mapping, no data, or a text that is empty or blank after the fallbacks
YieldsNoText(dto) ==
    \/ Truthy(dto.error) /\ dto.error.t = "dict"
    \/ /\ ~Truthy(dto.error)
       /\ \/ ~Truthy(dto.data)
          \/ AllWhitespace(CandidateText(dto.data))

\* C11: extract_text_from_image never returns a result whose extracted_text
\* is empty or whitespace-only; a 2xx response that yields an empty or blank
\* text after the fallbacks, carries an error mapping or has no data raises
\* TextExtractionError, and then no regulations query is started.
C11_NoBlankExtractedText ==
    /\ result # NotRun =>
          /\ result.extracted_text # << >>
          /\ ~AllWhitespace(result.extracted_text)
    /\ (llm_response # NotRun /\ YieldsNoText(llm_response)) =>
          /\ raised.cls = "TextExtractionError"
          /\ result = NotRun
          /\ ~Called("regulations")
          /\ pc = "done"

C11_Witness ==
    /\ wiring.rag
    /\ llm_response # NotRun
    /\ llm_response.error = PyNone
    /\ Truthy(llm_response.data)
    /\ AllWhitespace(CandidateText(llm_response.data))
    /\ raised.cls = "TextExtractionError"
    /\ calls = << "vision" >>

\* the latest POST ended the call: the client returned or raised
CallEnded == last_post # NotRun /\ ~last_post.retried

AnswerStatus == last_post.answer.status_code

\* C12: each of the three clients classifies the outcome of a call the same
\* way: a client-side timeout or a response with status 408 or 504 gives
\* LLMServiceTimeoutError; any other non-2xx response gives LLMServiceError
\* carrying the status code and the response body; a connection failure or
\* another request failure gives LLMServiceError.
C12_CallOutcomeClassified ==
    CallEnded =>
        CASE last_post.answer.kind \in {"connect_timeout", "read_timeout"} ->
                last_post.exc.cls = "LLMServiceTimeoutError"
          [] last_post.answer.kind \in {"connect_error", "other_request_error"} ->
                last_post.exc.cls = "LLMServiceError"
          [] last_post.answer.kind = "response" ->
                IF AnswerStatus \in {408, 504}
                THEN last_post.exc.cls = "LLMServiceTimeoutError"
                ELSE IF AnswerStatus \notin 200..299
                THEN /\ last_post.exc.cls = "LLMServiceError"
                     /\ "status_code" \in DOMAIN last_post.exc
                     /\ last_post.exc.status_code = AnswerStatus
                     /\ last_post.exc.response_data = last_post.answer.body
                ELSE last_post.exc = NoException

C13_WitnessNoRetry ==
    /\ attempts.vision = 1
    /\ CallEnded
    /\ last_post.stage = "vision"
    /\ last_post.answer.kind = "response"
    /\ AnswerStatus = 400
    /\ pc = "done"

(***************************************************************************)
(* Regulation facts and the regulations question: QueryFormatterService    *)
(***************************************************************************)
\* the characters of a string literal
Chars(s) == [i \in 1..Len(s) |-> SubSeq(s, i, i)]

\* the alternatives of each r'\b(?:...)\b' of country_patterns, in source order
country_patterns ==
    << << "United States", "USA", "US", "America" >>,
       << "United Kingdom", "UK", "Britain" >>,
       << "Canada", "Canadian" >>,
       << "Australia", "Australian" >>,
       << "Germany", "German" >>,
       << "France", "French" >>,
       << "Italy", "Italian" >>,
       << "Spain", "Spanish" >>,
       << "Japan", "Japanese" >>,
       << "China", "Chinese" >>,
       << "India", "Indian" >>,
       << "Brazil", "Brazilian" >>,
       << "Mexico", "Mexican" >>,
       << "Dubai", "UAE", "United Arab Emirates" >>,
       << "Singapore", "Singaporean" >>,
       << "Netherlands", "Dutch" >>,
       << "Belgium", "Belgian" >>,
       << "Switzerland", "Swiss" >>,
       << "Sweden", "Swedish" >>,
       << "Norway", "Norwegian" >>,
       << "Denmark", "Danish" >> >>

\* the alternatives of each r'\b(?:...)\b' of state_patterns, in source order
state_patterns ==
    << << "California", "CA" >>,
       << "Texas", "TX" >>,
       << "Florida", "FL" >>,
       << "New York", "NY" >>,
       << "Illinois", "IL" >>,
       << "Pennsylvania", "PA" >>,
       << "Ohio", "OH" >>,
       << "Georgia", "GA" >>,
       << "North Carolina", "NC" >>,
       << "Michigan", "MI" >>,
       << "New Jersey", "NJ" >>,
       << "Virginia", "VA" >>,
       << "Washington", "WA" >>,
       << "Arizona", "AZ" >>,
       << "Massachusetts", "MA" >>,
       << "Tennessee", "TN" >>,
       << "Indiana", "IN" >>,
       << "Missouri", "MO" >>,
       << "Maryland", "MD" >>,
       << "Wisconsin", "WI" >> >>

\* the alternatives of each r'\b(?:...)\b' of ingredient_patterns, in source order
ingredient_patterns ==
    << << "meat", "beef", "pork", "chicken", "poultry", "lamb", "fish", "seafood" >>,
       << "dairy", "milk", "cheese", "butter", "yogurt", "cream" >>,
       << "eggs", "egg products" >>,
       << "wheat", "flour", "grain", "rice", "corn", "oats", "barley" >>,
       << "sugar", "sweetener", "honey", "syrup" >>,
       << "oil", "olive oil", "vegetable oil", "coconut oil" >>,
       << "salt", "sodium", "spices", "herbs", "seasoning" >>,
       << "nuts", "peanuts", "almonds", "walnuts", "cashews" >>,
       << "soy", "soybeans", "tofu" >>,
       << "fruits", "vegetables", "produce" >>,
       << "additives", "preservatives", "colorings", "flavorings" >>,
       << "vitamins", "minerals", "supplements" >> >>

\* the alternatives of each r'\b(?:...)\b' of product_patterns, in source order
product_patterns ==
    << << "processed food", "packaged food", "canned food" >>,
       << "beverages", "drinks", "juice", "soda", "water" >>,
       << "snacks", "chips", "crackers", "cookies" >>,
       << "frozen food", "ice cream" >>,
       << "bread", "bakery products" >>,
       << "pasta", "noodles" >>,
       << "sauce", "condiments", "dressing" >>,
       << "baby food", "infant formula" >>,
       << "organic food", "natural products" >>,
       << "dietary supplements", "nutrition bars" >> >>
\* \w of the re module, for the characters the texts are made of
IsWordChar(c) ==
    \/ IsCased(c)
    \/ \E i \in 1..Len(Digits) : c = Digits[i]
    \/ c = "_"

\* \b at the gap before text[i]
WordBoundary(text, i) ==
    LET before == i > 1 /\ IsWordChar(text[i - 1])
        after  == i <= Len(text) /\ IsWordChar(text[i])
    IN  before # after

MatchesAtMutant(text, i, alt) ==
    /\ i + Len(alt) - 1 <= Len(text)
    /\ WordBoundary(text, i)
    /\ Lower(SubSeq(text, i, i + Len(alt) - 1)) = Lower(alt)

\* \b<alt>\b matches at text[i] under re.IGNORECASE
MatchesAt(text, i, alt) ==
    /\ i + Len(alt) - 1 <= Len(text)
    /\ WordBoundary(text, i)
    /\ WordBoundary(text, i + Len(alt))
    /\ Lower(SubSeq(text, i, i + Len(alt) - 1)) = Lower(alt)

\* the first alternative of the group that matches at text[i], 0 when none does
FirstAltAt(text, i, group) ==
    LET hits == { a \in 1..Len(group) : MatchesAt(text, i, Chars(group[a])) } IN
    IF hits = {} THEN 0 ELSE CHOOSE a \in hits : \A b \in hits : a <= b

RECURSIVE FindIterMutant(_, _, _)
FindIterMutant(text, i, group) ==
    IF i > Len(text) THEN << >>
    ELSE LET a == FirstAltAt(text, i, group) IN
         IF a = 0 THEN FindIterMutant(text, i + 1, group)
         ELSE LET n == Len(group[a]) IN
              << Lower(SubSeq(text, i, i + n - 1)) >> \o FindIterMutant(text, i + n, group)

\* [match.group().strip() for match in re.finditer(pattern, text, re.IGNORECASE)]
RECURSIVE FindIter(_, _, _)
FindIter(text, i, group) ==
    IF i > Len(text) THEN << >>
    ELSE LET a == FirstAltAt(text, i, group) IN
         IF a = 0 THEN FindIter(text, i + 1, group)
         ELSE LET n == Len(group[a]) IN
              << Strip(SubSeq(text, i, i + n - 1)) >> \o FindIter(text, i + n, group)

InList(x, list) == \E k \in 1..Len(list) : list[k] = x

AppendNewMutant(list, matches) == list \o matches

\* for match in matches: if match not in list: list.append(match)
RECURSIVE AppendNew(_, _)
AppendNew(list, matches) ==
    IF matches = << >> THEN list
    ELSE AppendNew(IF InList(Head(matches), list) THEN list ELSE Append(list, Head(matches)),
                   Tail(matches))

\* for pattern in patterns[g..]: ... ; return list
RECURSIVE ExtractByPatterns(_, _, _, _)
ExtractByPatterns(text, patterns, g, list) ==
    IF g > Len(patterns) THEN list
    ELSE ExtractByPatterns(text, patterns, g + 1,
                           AppendNew(list, FindIter(text, 1, patterns[g])))

ExtractCountries(text) == ExtractByPatterns(text, country_patterns, 1, << >>)

ExtractStates(text) == ExtractByPatterns(text, state_patterns, 1, << >>)

ExtractIngredients(text) == ExtractByPatterns(text, ingredient_patterns, 1, << >>)

ExtractProducts(text) == ExtractByPatterns(text, product_patterns, 1, << >>)

\* extract_regulation_info
ExtractRegulationInfo(extracted_text) ==
    [ countries     |-> ExtractCountries(extracted_text),
      states        |-> ExtractStates(extracted_text),
      ingredients   |-> ExtractIngredients(extracted_text),
      products      |-> ExtractProducts(extracted_text),
      original_text |-> extracted_text ]

NoneFound == << >>

DeterminePrimaryLocationMutant(regulation_info) ==
    IF regulation_info.states # << >> THEN regulation_info.states[1]
    ELSE IF regulation_info.countries # << >> THEN regulation_info.countries[1]
    ELSE NoneFound

\* _determine_primary_location; NoneFound stands for None
DeterminePrimaryLocation(regulation_info) ==
    IF regulation_info.countries # << >> THEN regulation_info.countries[1]
    ELSE IF regulation_info.states # << >> THEN regulation_info.states[1]
    ELSE NoneFound

\* _determine_primary_item
DeterminePrimaryItem(regulation_info) ==
    IF regulation_info.ingredients # << >> THEN regulation_info.ingredients[1]
    ELSE IF regulation_info.products # << >> THEN regulation_info.products[1]
    ELSE NoneFound

\* format_rag_query
FormatRagQuery(regulation_info) ==
    LET location == DeterminePrimaryLocation(regulation_info)
        item     == DeterminePrimaryItem(regulation_info)
    IN  IF location # NoneFound /\ item # NoneFound
        THEN Chars("What are the rules and regulations for exporting ") \o item
                 \o Chars(" to ") \o location \o Chars("?")
        ELSE IF location # NoneFound
        THEN Chars("What are the import/export rules and regulations for ") \o location
                 \o Chars("?")
        ELSE IF item # NoneFound
        THEN Chars("What are the rules and regulations for exporting ") \o item \o Chars("?")
        ELSE Chars("What are the general food import/export rules and regulations?")

(***************************************************************************)
(* The query formatter on its own, over a family of label texts            *)
(***************************************************************************)
\* how many words a label text of the family holds
MaxWords == 2

LabelWords ==
    { "Canada", "Canadian", "Canadians", "Texas", "in", "Beef", "beef", "Salt",
      "bread", "olive", "oil" }

LabelSeparators == { " ", ", " }

\* sep.join(words)
RECURSIVE JoinWords(_, _)
JoinWords(words, sep) ==
    IF words = << >> THEN << >>
    ELSE IF Len(words) = 1 THEN Chars(words[1])
    ELSE Chars(words[1]) \o Chars(sep) \o JoinWords(Tail(words), sep)

ScenarioText ==
    Chars("Product Name: Beef Jerky") \o << "\n" >>
        \o Chars("Destination Country: Canada") \o << "\n" >>
        \o Chars("Ingredients: Beef, Salt")

LabelTexts ==
    { ScenarioText }
    \cup { JoinWords(ws, sep) :
             ws \in UNION { [1..n -> LabelWords] : n \in 0..MaxWords },
             sep \in LabelSeparators }

InitQuery ==
    /\ pc = "facts"
    /\ fn_in \in LabelTexts
    /\ fn_out = NotRun
    /\ wiring = NotRun
    /\ users = NotRun
    /\ request = NotRun
    /\ llm_response = NotRun
    /\ result = NotRun
    /\ rag_response = NotRun
    /\ rag_result = NotRun
    /\ validation = NotRun
    /\ pdf_result = NotRun
    /\ calls = << >>
    /\ attempts = [vision |-> 0, regulations |-> 0, compliance |-> 0]
    /\ last_post = NotRun
    /\ raised = NoException
    /\ response = NotRun

\* regulation_info = extract_regulation_info(extracted_text)
RunExtractRegulationInfo ==
    /\ pc = "facts"
    /\ fn_out' = [regulation_info |-> ExtractRegulationInfo(fn_in)]
    /\ pc' = "query"
    /\ UNCHANGED << users, wiring, request, llm_response, result, rag_response, rag_result,
                    validation, pdf_result, calls, attempts, last_post, raised,
                    response, fn_in >>

\* formatted_query = format_rag_query(regulation_info)
RunFormatRagQuery ==
    /\ pc = "query"
    /\ fn_out' = [ regulation_info |-> fn_out.regulation_info,
                   formatted_query |-> FormatRagQuery(fn_out.regulation_info) ]
    /\ pc' = "asked"
    /\ UNCHANGED << users, wiring, request, llm_response, result, rag_response, rag_result,
                    validation, pdf_result, calls, attempts, last_post, raised,
                    response, fn_in >>

NextQuery == RunExtractRegulationInfo \/ RunFormatRagQuery

SpecQuery == InitQuery /\ [][NextQuery]_vars

Facts == fn_out.regulation_info

\* C14: the question is one of the four fixed templates, chosen by which of
\* location and item exist, where location is the first country if any, else
\* the first state, and item is the first ingredient if any, else the first
\* product; with neither, it is the fixed general question.
C14_QueryTemplateByFacts ==
    pc = "asked" =>
        LET has_location == Facts.countries # << >> \/ Facts.states # << >>
            has_item     == Facts.ingredients # << >> \/ Facts.products # << >>
            location == IF Facts.countries # << >> THEN Facts.countries[1]
                        ELSE Facts.states[1]
            item     == IF Facts.ingredients # << >> THEN Facts.ingredients[1]
                        ELSE Facts.products[1]
        IN  fn_out.formatted_query =
              CASE has_location /\ has_item ->
                     Chars("What are the rules and regulations for exporting ") \o item
                         \o Chars(" to ") \o location \o Chars("?")
                [] has_location /\ ~has_item ->
                     Chars("What are the import/export rules and regulations for ")
                         \o location \o Chars("?")
                [] ~has_location /\ has_item ->
                     Chars("What are the rules and regulations for exporting ") \o item
                         \o Chars("?")
                [] OTHER ->
                     Chars("What are the general food import/export rules and regulations?")

C14_Witness ==
    /\ pc = "asked"
    /\ Facts.countries = << Chars("Canada") >>
    /\ Facts.states = << Chars("Texas") >>
    /\ Facts.ingredients = << >>
    /\ fn_out.formatted_query =
          Chars("What are the import/export rules and regulations for Canada?")

\* C15: for the three-line label "Product Name: Beef Jerky", "Destination
\* Country: Canada", "Ingredients: Beef, Salt" the facts are countries
\* ["Canada"] and ingredients ["beef", "salt"], and the question is "What are
\* the rules and regulations for exporting beef to Canada?".
C15_ScenarioCaseFolded ==
    (pc = "asked" /\ fn_in = ScenarioText) =>
        /\ Facts.countries = << Chars("Canada") >>
        /\ Facts.ingredients = << Chars("beef"), Chars("salt") >>
        /\ fn_out.formatted_query =
              Chars("What are the rules and regulations for exporting beef to Canada?")

\* C15 as amended: for that label the facts are countries ["Canada"] and
\* ingredients ["Beef", "Salt"], the matched substrings in the casing of the
\* text, and the question is "What are the rules and regulations for
\* exporting Beef to Canada?".
C15_ScenarioAsMatched ==
    (pc = "asked" /\ fn_in = ScenarioText) =>
        /\ Facts.countries = << Chars("Canada") >>
        /\ Facts.ingredients = << Chars("Beef"), Chars("Salt") >>
        /\ fn_out.formatted_query =
              Chars("What are the rules and regulations for exporting Beef to Canada?")

C15_Witness ==
    /\ pc = "asked"
    /\ fn_in = ScenarioText
    /\ Len(Facts.ingredients) = 2
    /\ Facts.states = << >>
    /\ Facts.products = << >>

\* the alias `alt` stands at text[i] as a whole word or phrase, in any casing
KeywordAt(text, i, alt) ==
    /\ i + Len(alt) - 1 <= Len(text)
    /\ i = 1 \/ ~IsWordChar(text[i - 1])
    /\ i + Len(alt) > Len(text) \/ ~IsWordChar(text[i + Len(alt)])
    /\ Lower(SubSeq(text, i, i + Len(alt) - 1)) = Lower(alt)

\* the first place where exactly the string s stands in the text as a whole word
FirstWordPos(text, s) ==
    LET places == { i \in 1..Len(text) :
                      KeywordAt(text, i, s) /\ SubSeq(text, i, i + Len(s) - 1) = s }
    IN  CHOOSE i \in places : \A j \in places : i <= j

\* the pattern group an entry of a fact list belongs to
GroupOf(s, patterns) ==
    CHOOSE g \in 1..Len(patterns) :
        \E a \in 1..Len(patterns[g]) : Lower(Chars(patterns[g][a])) = Lower(s)

NoDuplicates(list) ==
    \A i, j \in 1..Len(list) : i # j => list[i] # list[j]

InScanOrder(list, patterns) ==
    \A i, j \in 1..Len(list) : i < j =>
        \/ GroupOf(list[i], patterns) < GroupOf(list[j], patterns)
        \/ /\ GroupOf(list[i], patterns) = GroupOf(list[j], patterns)
           /\ FirstWordPos(fn_in, list[i]) < FirstWordPos(fn_in, list[j])

\* every casing or alias of `words` that stands in the text is in the list
KeepsEach(list, words) ==
    \A w \in words :
        (\E i \in 1..Len(fn_in) :
            KeywordAt(fn_in, i, Chars(w)) /\ SubSeq(fn_in, i, i + Len(w) - 1) = Chars(w))
        => InList(Chars(w), list)

\* C16: none of the four fact lists holds a string twice, two aliases or two
\* casings of one name are both kept, and the entries stand in the order of
\* the scanning pass: by position of their pattern group in the pattern list
\* and, within one group, by position in the text.
C16_FactListsUniqueInScanOrder ==
    pc # "facts" =>
        /\ NoDuplicates(Facts.countries) /\ InScanOrder(Facts.countries, country_patterns)
        /\ NoDuplicates(Facts.states) /\ InScanOrder(Facts.states, state_patterns)
        /\ NoDuplicates(Facts.ingredients)
        /\ InScanOrder(Facts.ingredients, ingredient_patterns)
        /\ NoDuplicates(Facts.products) /\ InScanOrder(Facts.products, product_patterns)
        /\ KeepsEach(Facts.countries, {"Canada", "Canadian"})
        /\ KeepsEach(Facts.ingredients, {"Beef", "beef", "Salt"})

C16_Witness ==
    /\ pc = "query"
    /\ fn_in = Chars("Salt, Beef")
    /\ Facts.ingredients = << Chars("Beef"), Chars("Salt") >>

C16_WitnessCasings ==
    /\ pc = "query"
    /\ fn_in = Chars("beef Beef")
    /\ Facts.ingredients = << Chars("beef"), Chars("Beef") >>

\* no alias of any of the four pattern lists stands in the text
NoKeyword(text) ==
    \A patterns \in {country_patterns, state_patterns, ingredient_patterns, product_patterns} :
        \A g \in 1..Len(patterns) : \A a \in 1..Len(patterns[g]) :
            \A i \in 1..Len(text) : ~KeywordAt(text, i, Chars(patterns[g][a]))

\* C17: extract_regulation_info returns for every text (it never raises), its
\* original_text is the input, and for a text without any recognized keyword
\* the countries, states, ingredients and products lists are all empty.
C17_NoKeywordNoFacts ==
    pc # "facts" =>
        /\ DOMAIN Facts = {"countries", "states", "ingredients", "products", "original_text"}
        /\ Facts.original_text = fn_in
        /\ NoKeyword(fn_in) =>
              /\ Facts.countries = << >>
              /\ Facts.states = << >>
              /\ Facts.ingredients = << >>
              /\ Facts.products = << >>

C17_Witness ==
    /\ pc = "query"
    /\ fn_in = Chars("Canadians, olive")
    /\ NoKeyword(fn_in)
    /\ Facts.countries = << >>
    /\ Facts.original_text = Chars("Canadians, olive")

(***************************************************************************)
(* The compliance question: ValidationResponseFormatterService             *)
(***************************************************************************)
\* dict.get(key, default) or the next operand
OrElse(value, next) == IF Truthy(value) THEN value ELSE next

NoRegulationsFound == PyStr(Chars("No regulations found"))

DefaultReferences == PyList(<< PyStr(Chars("Regulatory_Database.pdf")) >>)

\* the structure the except clause of _format_rag_response returns
RagFormatFallback ==
    [ agent_response |-> PyStr(Chars("Error processing regulatory information")),
      references     |-> PyList(<< PyStr(Chars("Error_Processing.pdf")) >>) ]

\* rag_response.get("answer", "") or ... or str(rag_response.get("data", ""))
PickAgentResponseMutant(rag_dict) ==
    IF HasKey(rag_dict, "answer") THEN Get(rag_dict, "answer")
    ELSE IF HasKey(rag_dict, "regulations") THEN Get(rag_dict, "regulations")
    ELSE IF HasKey(rag_dict, "response") THEN Get(rag_dict, "response")
    ELSE PyStr(Str(GetOr(rag_dict, "data", PyStr(<< >>))))

PickAgentResponse(rag_dict) ==
    OrElse(GetOr(rag_dict, "answer", PyStr(<< >>)),
      OrElse(GetOr(rag_dict, "regulations", PyStr(<< >>)),
        OrElse(GetOr(rag_dict, "response", PyStr(<< >>)),
               PyStr(Str(GetOr(rag_dict, "data", PyStr(<< >>)))))))

\* rag_response.get("sources", []) or rag_response.get("references", [])
PickSources(rag_dict) ==
    OrElse(GetOr(rag_dict, "sources", PyList(<< >>)),
           GetOr(rag_dict, "references", PyList(<< >>)))

\* _format_rag_response
FormatRagResponse(rag_dict) ==
    IF rag_dict.t # "dict"
    THEN [agent_response |-> NoRegulationsFound, references |-> PyList(<< >>)]
    ELSE LET agent_response == PickAgentResponse(rag_dict)
             sources        == PickSources(rag_dict)
             references     == IF Truthy(sources)
                               THEN IF sources.t = "list" THEN sources
                                    ELSE PyList(<< PyStr(Str(sources)) >>)
                               ELSE DefaultReferences
         IN  IF ~Truthy(agent_response)
             THEN [agent_response |-> NoRegulationsFound, references |-> references]
             ELSE IF agent_response.t # "str" THEN RagFormatFallback   \* no .strip()
             ELSE [ agent_response |-> PyStr(Strip(agent_response.s)),
                    references     |-> references ]

(***************************************************************************)
(* _format_rag_response on its own, over a family of regulations dicts     *)
(***************************************************************************)
\* the values a key of the family takes when it is present
RagFieldValues ==
    [ answer      |-> { PyStr(Chars("A ")), PyStr(<< >>), PyStr(<< " " >>), PyNone, PyInt(7) },
      regulations |-> { PyStr(Chars("R")) },
      response    |-> { PyStr(Chars("S")) },
      data        |-> { PyStr(Chars("D")), PyNone },
      sources     |-> { PyList(<< PyStr(Chars("s.pdf")) >>), PyList(<< >>), PyStr(Chars("s")) },
      references  |-> { PyList(<< PyStr(Chars("r.pdf")) >>) } ]

RagFieldOrder == << "answer", "regulations", "response", "data", "sources", "references" >>

\* the items of the chosen keys, in RagFieldOrder
RECURSIVE RagItems(_, _, _)
RagItems(keys, f, i) ==
    IF i > Len(RagFieldOrder) THEN << >>
    ELSE (IF RagFieldOrder[i] \in keys
          THEN << << RagFieldOrder[i], f[RagFieldOrder[i]] >> >> ELSE << >>)
         \o RagItems(keys, f, i + 1)

RagFormatInputs ==
    { PyNone, PyStr(Chars("A")) }
    \cup UNION { { PyDict(RagItems(keys, f, 1)) :
                     f \in { g \in [keys -> UNION { RagFieldValues[k] : k \in keys }] :
                               \A k \in keys : g[k] \in RagFieldValues[k] } } :
                 keys \in SUBSET DOMAIN RagFieldValues }

InitRagFormat ==
    /\ pc = "rag_format"
    /\ fn_in \in RagFormatInputs
    /\ fn_out = NotRun
    /\ wiring = NotRun
    /\ users = NotRun
    /\ request = NotRun
    /\ llm_response = NotRun
    /\ result = NotRun
    /\ rag_response = NotRun
    /\ rag_result = NotRun
    /\ validation = NotRun
    /\ pdf_result = NotRun
    /\ calls = << >>
    /\ attempts = [vision |-> 0, regulations |-> 0, compliance |-> 0]
    /\ last_post = NotRun
    /\ raised = NoException
    /\ response = NotRun

\* rag_formatted = self._format_rag_response(rag_response)
RunFormatRagResponse ==
    /\ pc = "rag_format"
    /\ fn_out' = FormatRagResponse(fn_in)
    /\ pc' = "rag_formatted"
    /\ UNCHANGED << users, wiring, request, llm_response, result, rag_response, rag_result,
                    validation, pdf_result, calls, attempts, last_post, raised,
                    response, fn_in >>

NextRagFormat == RunFormatRagResponse

SpecRagFormat == InitRagFormat /\ [][NextRagFormat]_vars

(***************************************************************************)
(* Properties of _format_rag_response                                      *)
(***************************************************************************)
\* the four values the regulations side is collapsed from, in priority order
RagCandidates(rag_dict) ==
    << GetOr(rag_dict, "answer", PyStr(<< >>)),
       GetOr(rag_dict, "regulations", PyStr(<< >>)),
       GetOr(rag_dict, "response", PyStr(<< >>)),
       PyStr(Str(GetOr(rag_dict, "data", PyStr(<< >>)))) >>

RagCandidateKeys == << "answer", "regulations", "response", "data" >>

\* a key is present when the dict holds a non-empty value under it
Present(rag_dict, key) == HasKey(rag_dict, key) /\ Truthy(Get(rag_dict, key))

\* the positions of the candidates that are present / non-empty
PresentPositions(rag_dict) ==
    { i \in 1..4 : Present(rag_dict, RagCandidateKeys[i]) }

NonEmptyPositions(rag_dict) ==
    { i \in 1..4 : Truthy(RagCandidates(rag_dict)[i]) }

Lowest(S) == CHOOSE i \in S : \A j \in S : i <= j

\* a list of reference names as it is, any other value as the one-element
\* list of its string form
AsReferenceList(value) ==
    IF value.t = "list" THEN value ELSE PyList(<< PyStr(Str(value)) >>)

\* C19 as stated: agent_response is the first present of answer, regulations,
\* response, data, in that priority; references is sources if present, else
\* references; with neither key, references is the one sentinel name.
C19_FirstPresentAsIs ==
    (pc = "rag_formatted" /\ fn_in.t = "dict") =>
        /\ PresentPositions(fn_in) # {} =>
             fn_out.agent_response =
                 Get(fn_in, RagCandidateKeys[Lowest(PresentPositions(fn_in))])
        /\ Present(fn_in, "sources") =>
             fn_out.references = Get(fn_in, "sources")
        /\ (~Present(fn_in, "sources") /\ Present(fn_in, "references")) =>
             fn_out.references = Get(fn_in, "references")
        /\ (~HasKey(fn_in, "sources") /\ ~HasKey(fn_in, "references")) =>
             fn_out.references = DefaultReferences

\* C19, amended: agent_response is the first non-empty of answer,
\* regulations, response, str(data), in that priority, stripped of
\* surrounding whitespace, and "No regulations found" when all are empty;
\* references is sources if non-empty, else references if non-empty, a
\* non-list value wrapped as the one-element list of its string form, and
\* the one sentinel name when neither is non-empty; a non-empty first value
\* that is not a string gives the fixed error structure instead.
C19_FirstNonEmptyStripped ==
    (pc = "rag_formatted" /\ fn_in.t = "dict") =>
        LET nonempty == NonEmptyPositions(fn_in)
            picked   == RagCandidates(fn_in)[Lowest(nonempty)]
            sources  == GetOr(fn_in, "sources", PyList(<< >>))
            refs     == GetOr(fn_in, "references", PyList(<< >>))
            expected_references ==
                IF Truthy(sources) THEN AsReferenceList(sources)
                ELSE IF Truthy(refs) THEN AsReferenceList(refs)
                ELSE DefaultReferences
        IN  IF nonempty = {}
            THEN /\ fn_out.agent_response = NoRegulationsFound
                 /\ fn_out.references = expected_references
            ELSE IF picked.t # "str"
            THEN fn_out = RagFormatFallback
            ELSE /\ fn_out.agent_response = PyStr(Strip(picked.s))
                 /\ fn_out.references = expected_references

\* an empty answer is passed over for the regulations text, and with no
\* sources and no references the one sentinel name is used
C19_Witness ==
    /\ pc = "rag_formatted"
    /\ fn_in = PyDict(<< << "answer", PyStr(<< >>) >>,
                         << "regulations", PyStr(Chars("R")) >> >>)
    /\ fn_out.agent_response = PyStr(Chars("R"))
    /\ fn_out.references = DefaultReferences

\* a padded answer comes out stripped, with the sources it came with
C19_WitnessStripped ==
    /\ pc = "rag_formatted"
    /\ fn_in = PyDict(<< << "answer", PyStr(Chars("A ")) >>,
                         << "sources", PyList(<< PyStr(Chars("s.pdf")) >>) >> >>)
    /\ fn_out.agent_response = PyStr(Chars("A"))
    /\ fn_out.references = PyList(<< PyStr(Chars("s.pdf")) >>)

(***************************************************************************)
(* Product facts of the extracted text:                                    *)
(* ValidationResponseFormatterService._extract_product_information         *)
(***************************************************************************)
\* what \s matches, and what [^\n\r] does not
RegexSpace == Whitespace \cup {"\r", "\f"}

LineBreaks == {"\n", "\r"}

\* the class [-â€¢] of the continuation lines of an ingredients list
BulletChars == {"-", "â", "€", "¢"}

\* A label pattern  word s? (\s* (?:alt|...)?)? : \s* ([^\n\r]+) (continuation)*
\*   plural:       the word is followed by an optional s
\*   gap:          \s* and the alternatives stand between the word and the colon
\*   optional:     the alternatives may be left out
\*   continuation: bullet lines after the first line belong to the match
\*   whole:        the pattern text holds a '|', so the caller takes group(0)
LabelPattern(word, plural, gap, alts, optional, continuation, whole) ==
    [ word |-> Chars(word), plural |-> plural, gap |-> gap, alts |-> alts,
      optional |-> optional, continuation |-> continuation, whole |-> whole ]

product_name_patterns ==
    << LabelPattern("Product", FALSE, TRUE, << Chars("Name") >>, TRUE, FALSE, FALSE),
       LabelPattern("Product", FALSE, FALSE, << >>, TRUE, FALSE, FALSE),
       LabelPattern("Name", FALSE, FALSE, << >>, TRUE, FALSE, FALSE) >>

country_label_patterns ==
    << LabelPattern("Destination", FALSE, TRUE, << Chars("Country") >>, TRUE, FALSE, FALSE),
       LabelPattern("Export", FALSE, TRUE, << Chars("to"), Chars("Country") >>, FALSE, FALSE, TRUE),
       LabelPattern("Country", FALSE, FALSE, << >>, TRUE, FALSE, FALSE) >>

\* the last country pattern: a bare alternation of names
country_names ==
    << Chars("Dubai"), Chars("UAE"), Chars("United Arab Emirates"),
       Chars("Canada"), Chars("USA"), Chars("United States") >>

detail_patterns ==
    << LabelPattern("Ingredient", TRUE, FALSE, << >>, TRUE, TRUE, FALSE),
       LabelPattern("Claim", TRUE, FALSE, << >>, TRUE, FALSE, FALSE),
       LabelPattern("Net", FALSE, TRUE, << Chars("Weight"), Chars("Quantity") >>, TRUE, FALSE, TRUE),
       LabelPattern("Manufacturer", FALSE, FALSE, << >>, TRUE, FALSE, FALSE),
       LabelPattern("Certification", FALSE, FALSE, << >>, TRUE, FALSE, FALSE) >>

\* a literal of a pattern at position i, under re.IGNORECASE
LiteralAt(text, i, word) ==
    /\ i + Len(word) - 1 <= Len(text)
    /\ \A k \in 1..Len(word) : Lower(<< text[i + k - 1] >>) = Lower(<< word[k] >>)

\* \s* from position i: the position after the run of whitespace
RECURSIVE SkipSpace(_, _)
SkipSpace(text, i) ==
    IF i <= Len(text) /\ text[i] \in RegexSpace THEN SkipSpace(text, i + 1) ELSE i

\* [^\n\r]+ from position i, greedy: the last position of the run
RECURSIVE EndOfLine(_, _)
EndOfLine(text, i) ==
    IF i + 1 <= Len(text) /\ text[i + 1] \notin LineBreaks
    THEN EndOfLine(text, i + 1) ELSE i

NoSpan == [from |-> 0, to |-> 0]

\* \s*([^\n\r]+) from position p: the span of the group.  \s* takes all the
\* whitespace; when the text ends there, it gives back characters until the
\* group finds one that is not a line break.
RestSpan(text, p) ==
    LET q == SkipSpace(text, p)
        given_back == { j \in p..Len(text) : text[j] \notin LineBreaks }
    IN  IF q <= Len(text) THEN [from |-> q, to |-> EndOfLine(text, q)]
        ELSE IF given_back = {} THEN NoSpan
        ELSE LET j == CHOOSE k \in given_back : \A m \in given_back : m <= k
             IN  [from |-> j, to |-> j]

\* the position of the colon of a label pattern whose word starts at i,
\* or 0: the alternatives are tried in order, then (if optional) none
ColonAfter(text, i, pattern) ==
    LET a == i + Len(pattern.word)
        b == IF pattern.plural /\ LiteralAt(text, a, << "s" >>) THEN a + 1 ELSE a
        c == IF pattern.gap THEN SkipSpace(text, b) ELSE b
        choices == pattern.alts \o (IF pattern.optional THEN << << >> >> ELSE << >>)
        fits == { k \in 1..Len(choices) :
                    /\ LiteralAt(text, c, choices[k])
                    /\ c + Len(choices[k]) <= Len(text)
                    /\ text[c + Len(choices[k])] = ":" }
    IN  IF fits = {} THEN 0
        ELSE c + Len(choices[CHOOSE k \in fits : \A m \in fits : k <= m])

\* \n\s*[-â€¢] after position e: the position of the bullet, or 0
BulletAfter(text, e) ==
    IF e + 1 <= Len(text) /\ text[e + 1] = "\n"
       /\ SkipSpace(text, e + 2) <= Len(text)
       /\ text[SkipSpace(text, e + 2)] \in BulletChars
    THEN SkipSpace(text, e + 2) ELSE 0

\* \n\s*[-â€¢]\s*[^\n\r]+ after position e: the span of the line's text
ContinuationLine(text, e) ==
    IF BulletAfter(text, e) = 0 THEN NoSpan
    ELSE RestSpan(text, BulletAfter(text, e) + 1)

\* (?:\n\s*[-â€¢]\s*[^\n\r]+)* after position e: the last position matched
RECURSIVE ContinuationEnd(_, _)
ContinuationEnd(text, e) ==
    IF ContinuationLine(text, e) = NoSpan THEN e
    ELSE ContinuationEnd(text, ContinuationLine(text, e).to)

NoMatch == [from |-> 0, to |-> 0, group |-> NoSpan]

\* :\s*([^\n\r]+) from the colon found, if one was found
LabelRest(text, colon) == IF colon = 0 THEN NoSpan ELSE RestSpan(text, colon + 1)

\* the match whose word starts at i and whose group starts with the span rest
LabelMatchFrom(text, i, pattern, rest) ==
    IF rest = NoSpan THEN NoMatch
    ELSE LET to == IF pattern.continuation
                   THEN ContinuationEnd(text, rest.to) ELSE rest.to
         IN  [from |-> i, to |-> to, group |-> [from |-> rest.from, to |-> to]]

\* a label pattern matched at position i: the span of the match and of group 1
LabelMatchAt(text, i, pattern) ==
    IF ~LiteralAt(text, i, pattern.word) THEN NoMatch
    ELSE LabelMatchFrom(text, i, pattern, LabelRest(text, ColonAfter(text, i, pattern)))

\* the match at the leftmost of the positions where the pattern matches
LeftmostMatch(text, pattern, hits) ==
    IF hits = {} THEN NoMatch
    ELSE LabelMatchAt(text, CHOOSE i \in hits : \A j \in hits : i <= j, pattern)

\* re.search(pattern, text[start:]) for a label pattern: the leftmost match
LabelSearch(text, start, pattern) ==
    LeftmostMatch(text, pattern,
        { i \in start..Len(text) : LabelMatchAt(text, i, pattern) # NoMatch })

\* re.search of the alternation of country names: leftmost position, first
\* alternative that matches there
NameSearch(text) ==
    LET at(i) == { k \in 1..Len(country_names) : LiteralAt(text, i, country_names[k]) }
        hits  == { i \in 1..Len(text) : at(i) # {} }
    IN  IF hits = {} THEN NoMatch
        ELSE LET i == CHOOSE h \in hits : \A j \in hits : h <= j
                 k == CHOOSE n \in at(i) : \A m \in at(i) : n <= m
             IN  [from |-> i, to |-> i + Len(country_names[k]) - 1, group |-> NoSpan]

\* match.group(0) or match.group(1), stripped, as the caller picks it
Picked(text, match, whole) ==
    Strip(IF whole THEN SubSeq(text, match.from, match.to)
          ELSE SubSeq(text, match.group.from, match.group.to))

\* for pattern in patterns: match = re.search(...); if match: ...; break
RECURSIVE FirstLabelValue(_, _, _, _)
ValueOrNext(text, patterns, n, otherwise, match) ==
    IF match # NoMatch THEN Picked(text, match, patterns[n].whole)
    ELSE FirstLabelValue(text, patterns, n + 1, otherwise)

FirstLabelValue(text, patterns, n, otherwise) ==
    IF n > Len(patterns) THEN otherwise
    ELSE ValueOrNext(text, patterns, n, otherwise, LabelSearch(text, 1, patterns[n]))

\* re.finditer(pattern, text): match.group(0).strip() of each match in turn
RECURSIVE FindDetails(_, _, _)
DetailsFrom(text, pattern, match) ==
    IF match = NoMatch THEN << >>
    ELSE << Picked(text, match, TRUE) >> \o FindDetails(text, match.to + 1, pattern)

FindDetails(text, start, pattern) ==
    DetailsFrom(text, pattern, LabelSearch(text, start, pattern))

\* if detail and detail not in additional_details: append
RECURSIVE AppendDetails(_, _)
AppendDetails(additional_details, found) ==
    IF found = << >> THEN additional_details
    ELSE AppendDetails(
           IF Head(found) # << >> /\ ~InList(Head(found), additional_details)
           THEN Append(additional_details, Head(found)) ELSE additional_details,
           Tail(found))

RECURSIVE AdditionalDetails(_, _, _)
AdditionalDetails(text, n, additional_details) ==
    IF n > Len(detail_patterns) THEN additional_details
    ELSE AdditionalDetails(text, n + 1,
           AppendDetails(additional_details, FindDetails(text, 1, detail_patterns[n])))

\* ". ".join(details)
RECURSIVE JoinDetails(_)
JoinDetails(details) ==
    IF details = << >> THEN << >>
    ELSE IF Len(details) = 1 THEN details[1]
    ELSE details[1] \o << ".", " " >> \o JoinDetails(Tail(details))

\* if additional_details: ". ".join(additional_details), else what info holds
JoinedOr(additional_details, otherwise) ==
    IF additional_details # << >> THEN JoinDetails(additional_details) ELSE otherwise

\* the name the alternation of country names found, or ""
NameValue(text, match) ==
    IF match # NoMatch THEN Picked(text, match, TRUE) ELSE << >>

\* _extract_product_information
ExtractProductInformationMutant(text) ==
    [ product_name |-> FirstLabelValue(text, product_name_patterns, 1, << >>),
      export_country_or_state |->
          FirstLabelValue(text, country_label_patterns, 1, NameValue(text, NameSearch(text))),
      supplementary_details |-> JoinedOr(AdditionalDetails(text, 1, << >>), text) ]

ExtractProductInformation(text) ==
    [ product_name |-> FirstLabelValue(text, product_name_patterns, 1, << >>),
      export_country_or_state |->
          FirstLabelValue(text, country_label_patterns, 1, NameValue(text, NameSearch(text))),
      supplementary_details |-> JoinedOr(AdditionalDetails(text, 1, << >>), Strip(text)) ]

\* _format_image_extraction_response
FormatImageExtractionResponse(extracted_text) ==
    LET product_info == ExtractProductInformation(extracted_text.s)
    IN  PyDict(<< << "agent_response",
                     PyDict(<< << "product_name", PyStr(product_info.product_name) >>,
                               << "export_country_or_state",
                                  PyStr(product_info.export_country_or_state) >>,
                               << "supplementary_details",
                                  PyStr(product_info.supplementary_details) >> >>) >> >>)

(***************************************************************************)
(* format_validation_query and its JSON text                               *)
(***************************************************************************)
\* json.dumps of a str character (ensure_ascii=False)
JsonChar(c) ==
    CASE c = "\"" -> << "\\", "\"" >>
      [] c = "\\" -> << "\\", "\\" >>
      [] c = "\n" -> << "\\", "n" >>
      [] c = "\r" -> << "\\", "r" >>
      [] c = "\t" -> << "\\", "t" >>
      [] c = "\f" -> << "\\", "f" >>
      [] OTHER    -> << c >>

RECURSIVE JsonChars(_)
JsonChars(s) == IF s = << >> THEN << >> ELSE JsonChar(Head(s)) \o JsonChars(Tail(s))

\* json.dumps(value, ensure_ascii=False, separators=(',', ':'))
RECURSIVE JsonDumps(_)
RECURSIVE JsonElems(_)
RECURSIVE JsonItems(_)
JsonDumps(v) ==
    CASE v.t = "str"  -> << "\"" >> \o JsonChars(v.s) \o << "\"" >>
      [] v.t = "none" -> Chars("null")
      [] v.t = "int"  -> Str(v)
      [] v.t = "list" -> << "[" >> \o JsonElems(v.elems) \o << "]" >>
      [] v.t = "dict" -> << "{" >> \o JsonItems(v.items) \o << "}" >>

JsonElems(elems) ==
    IF elems = << >> THEN << >>
    ELSE JsonDumps(Head(elems))
         \o (IF Len(elems) > 1 THEN << "," >> ELSE << >>) \o JsonElems(Tail(elems))

JsonItems(items) ==
    IF items = << >> THEN << >>
    ELSE << "\"" >> \o JsonChars(Chars(Head(items)[1])) \o << "\"", ":" >>
         \o JsonDumps(Head(items)[2])
         \o (IF Len(items) > 1 THEN << "," >> ELSE << >>) \o JsonItems(Tail(items))

\* a dict of _format_rag_response as a Python dict
RagFormatted(rag_dict) ==
    LET rag_formatted == FormatRagResponse(rag_dict)
    IN  PyDict(<< << "agent_response", rag_formatted.agent_response >>,
                  << "references", rag_formatted.references >> >>)

\* format_validation_query: the query structure and its JSON text, or the
\* AttributeError of extracted_text.strip() when the text is not a str
FormatValidationQuery(extracted_text, rag_dict) ==
    IF extracted_text.t # "str"
    THEN [raised |-> Exc("AttributeError"), returned |-> NotRun]
    ELSE LET validation_query ==
                 PyDict(<< << "image_extraction_raw",
                              FormatImageExtractionResponse(extracted_text) >>,
                           << "rag_raw", RagFormatted(rag_dict) >> >>)
         IN  [ raised |-> NoException,
               returned |-> [ validation_query |-> validation_query,
                              validation_query_json |-> JsonDumps(validation_query) ] ]

(***************************************************************************)
(* format_validation_query on its own, over label texts of a few lines     *)
(***************************************************************************)
MaxLines == 2

LabelLines ==
    { "", " hello ", "made in canada", "Product Name: Jam", "Name: Jam",
      "Export to: Canada", "Destination:", "Ingredients: Beef, Salt", "- Sugar",
      "Claims: Organic", "Claims: ", "Net Weight: 5" }

RECURSIVE JoinLabelLines(_)
JoinLabelLines(lines) ==
    IF lines = << >> THEN << >>
    ELSE IF Len(lines) = 1 THEN Chars(lines[1])
    ELSE Chars(lines[1]) \o << "\n" >> \o JoinLabelLines(Tail(lines))

QueryTexts ==
    { PyNone }
    \cup { PyStr(JoinLabelLines(lines)) :
             lines \in UNION { [1..n -> LabelLines] : n \in 0..MaxLines } }

QueryRagResponses ==
    { PyDict(<< >>),
      PyDict(<< << "answer", PyNone >>, << "sources", PyList(<< >>) >> >>),
      PyDict(<< << "answer", PyStr(Chars("Label in \"metric\" units")) >>,
                << "sources", PyList(<< PyStr(Chars("Rules.pdf")) >>) >> >>) }

InitFormatQuery ==
    /\ pc = "format_query"
    /\ fn_in \in [ extracted_text : QueryTexts, rag_response : QueryRagResponses ]
    /\ fn_out = NotRun
    /\ wiring = NotRun
    /\ users = NotRun
    /\ request = NotRun
    /\ llm_response = NotRun
    /\ result = NotRun
    /\ rag_response = NotRun
    /\ rag_result = NotRun
    /\ validation = NotRun
    /\ pdf_result = NotRun
    /\ calls = << >>
    /\ attempts = [vision |-> 0, regulations |-> 0, compliance |-> 0]
    /\ last_post = NotRun
    /\ raised = NoException
    /\ response = NotRun

\* validation_query_json = format_validation_query(extracted_text, rag_response)
RunFormatValidationQuery ==
    /\ pc = "format_query"
    /\ LET outcome == FormatValidationQuery(fn_in.extracted_text, fn_in.rag_response)
       IN  /\ fn_out' = outcome.returned
           /\ raised' = outcome.raised
    /\ pc' = "query_formatted"
    /\ UNCHANGED << users, wiring, request, llm_response, result, rag_response, rag_result,
                    validation, pdf_result, calls, attempts, last_post, response, fn_in >>

NextFormatQuery == RunFormatValidationQuery

SpecFormatQuery == InitFormatQuery /\ [][NextFormatQuery]_vars

(***************************************************************************)
(* Properties of format_validation_query                                   *)
(***************************************************************************)
\* the keys of a dict, in order
DictKeys(d) == [i \in 1..Len(d.items) |-> d.items[i][1]]

\* d is a dict with exactly these keys, each once
HoldsExactly(d, keys) ==
    /\ d.t = "dict"
    /\ Len(d.items) = Cardinality(keys)
    /\ { DictKeys(d)[i] : i \in 1..Len(d.items) } = keys

\* the structure of the query: two top-level keys, the three product fields
\* as strings under image_extraction_raw.agent_response, and the answer as a
\* string and the references as a list under rag_raw
QueryStructure(query) ==
    /\ HoldsExactly(query, {"image_extraction_raw", "rag_raw"})
    /\ LET image == Get(query, "image_extraction_raw")
           rag   == Get(query, "rag_raw")
       IN  /\ HoldsExactly(image, {"agent_response"})
           /\ HoldsExactly(Get(image, "agent_response"),
                  {"product_name", "export_country_or_state", "supplementary_details"})
           /\ \A k \in {"product_name", "export_country_or_state", "supplementary_details"} :
                  Get(Get(image, "agent_response"), k).t = "str"
           /\ HoldsExactly(rag, {"agent_response", "references"})
           /\ Get(rag, "agent_response").t = "str"
           /\ Get(rag, "references").t = "list"

DetailLabelWords == { "ingredient", "claim", "net", "manufacturer", "certification" }

\* one of the detail label words stands somewhere in the text, in any casing
MentionsDetailLabel(text) ==
    \E i \in 1..Len(text) : \E word \in DetailLabelWords :
        /\ i + Len(Chars(word)) - 1 <= Len(text)
        /\ Lower(SubSeq(text, i, i + Len(Chars(word)) - 1)) = Chars(word)

QueryFormatted == pc = "query_formatted" /\ raised = NoException

SupplementaryDetails ==
    Get(Get(Get(fn_out.validation_query, "image_extraction_raw"), "agent_response"),
        "supplementary_details")

C18_WitnessPadded ==
    /\ QueryFormatted
    /\ fn_in.extracted_text = PyStr(Chars(" hello "))
    /\ SupplementaryDetails = PyStr(Chars("hello"))

\* recognized detail labels replace the text
C18_WitnessDetails ==
    /\ QueryFormatted
    /\ fn_in.extracted_text = PyStr(Chars("Ingredients: Beef, Salt") \o << "\n" >> \o Chars("- Sugar"))
    /\ SupplementaryDetails = PyStr(Chars("Ingredients: Beef, Salt") \o << "\n" >> \o Chars("- Sugar"))

(***************************************************************************)
(* parse_validation_response on its own, over a family of verdict bodies   *)
(***************************************************************************)
\* the values answer.agent_response.compliance takes when it is present
ComplianceValues ==
    { PyStr(Chars("true")), PyStr(Chars("TRUE")), PyStr(Chars("True")),
      PyStr(Chars("false")), PyStr(Chars("yes")), PyStr(Chars(" true")),
      PyStr(<< >>), PyNone, PyInt(1) }

\* the count and list fields of a verdict, with the value each has when present
VerdictFields ==
    << << "coverage_percent", PyInt(80) >>,
       << "matched_count", PyInt(3) >>,
       << "partial_count", PyInt(1) >>,
       << "total_required", PyInt(5) >>,
       << "missing_items", PyList(<< PyStr(Chars("allergen declaration")) >>) >>,
       << "partial_matches", PyList(<< PyStr(Chars("net quantity")) >>) >>,
       << "conflicts", PyList(<< PyStr(Chars("Hormone-free")) >>) >> >>

\* the agent_response dicts: any of the fields, with or without a compliance
AgentResponses ==
    { PyDict(compliance \o SelectSeq(VerdictFields, LAMBDA item : item[1] \in present)) :
        compliance \in { << >> } \cup { << << "compliance", v >> >> : v \in ComplianceValues },
        present \in SUBSET { VerdictFields[i][1] : i \in 1..Len(VerdictFields) } }

VerdictBody(status, answer) ==
    PyDict(<< << "status", PyStr(Chars(status)) >>, << "answer", answer >> >>)

VerdictBodies ==
    { PyDict(<< >>),
      PyDict(<< << "status", PyStr(Chars("success")) >> >>),
      VerdictBody("success", PyNone),
      VerdictBody("success", PyDict(<< >>)),
      VerdictBody("success", PyDict(<< << "agent_response", PyNone >> >>)),
      VerdictBody("error", PyDict(<< << "agent_response",
          PyDict(<< << "compliance", PyStr(Chars("true")) >> >>) >> >>)) }
    \cup { VerdictBody("success",
               PyDict(<< << "agent_response", agent_response >>,
                         << "references", PyList(<< PyStr(Chars("Rules.pdf")) >>) >> >>)) :
             agent_response \in AgentResponses }

InitParse ==
    /\ pc = "parse"
    /\ fn_in \in VerdictBodies
    /\ fn_out = NotRun
    /\ wiring = NotRun
    /\ users = NotRun
    /\ request = NotRun
    /\ llm_response = NotRun
    /\ result = NotRun
    /\ rag_response = NotRun
    /\ rag_result = NotRun
    /\ validation = NotRun
    /\ pdf_result = NotRun
    /\ calls = << >>
    /\ attempts = [vision |-> 0, regulations |-> 0, compliance |-> 0]
    /\ last_post = NotRun
    /\ raised = NoException
    /\ response = NotRun

\* parsed_result = parse_validation_response(validation_response)
RunParseValidationResponse ==
    /\ pc = "parse"
    /\ fn_out' = ParseValidationResponse(fn_in)
    /\ pc' = "parsed"
    /\ UNCHANGED << users, wiring, request, llm_response, result, rag_response, rag_result,
                    validation, pdf_result, calls, attempts, last_post, raised,
                    response, fn_in >>

NextParse == RunParseValidationResponse

SpecParse == InitParse /\ [][NextParse]_vars

(***************************************************************************)
(* Properties of parse_validation_response                                 *)
(***************************************************************************)
\* the verdict of a body, when the body carries one: answer.agent_response
VerdictOf(body) ==
    IF HasKey(body, "answer") /\ Get(body, "answer").t = "dict"
       /\ HasKey(Get(body, "answer"), "agent_response")
    THEN Get(Get(body, "answer"), "agent_response")
    ELSE PyDict(<< >>)

\* a body with status "success" whose answer and verdict, where given, are
\* objects, and whose compliance, where given, is a string
SuccessBody(body) ==
    /\ HasKey(body, "status") /\ Get(body, "status") = PyStr(Chars("success"))
    /\ HasKey(body, "answer") => Get(body, "answer").t = "dict"
    /\ VerdictOf(body).t = "dict"
    /\ HasKey(VerdictOf(body), "compliance") => Get(VerdictOf(body), "compliance").t = "str"

\* the casings of "true"
TrueIgnoringCase ==
    { << t, r, u, e >> : t \in {"t", "T"}, r \in {"r", "R"}, u \in {"u", "U"}, e \in {"e", "E"} }

\* the field of the verdict, or the default when the verdict lacks the key
TakenOr(body, key, default) ==
    IF HasKey(VerdictOf(body), key) THEN Get(VerdictOf(body), key) ELSE default

\* C20: for a response with status "success", is_compliant is true exactly
\* when answer.agent_response.compliance is "true" in some casing; the
\* percentage and the three counts are those of the response, 0 when absent;
\* the three issue lists are those of the response, empty when absent.
C20_VerdictParsedWithDefaults ==
    (pc = "parsed" /\ SuccessBody(fn_in)) =>
        /\ fn_out.success
        /\ fn_out.compliance.is_compliant <=>
             /\ HasKey(VerdictOf(fn_in), "compliance")
             /\ Get(VerdictOf(fn_in), "compliance").s \in TrueIgnoringCase
        /\ \A key \in {"coverage_percent", "matched_count", "partial_count", "total_required"} :
             fn_out.compliance[key] = TakenOr(fn_in, key, PyInt(0))
        /\ \A key \in {"missing_items", "partial_matches", "conflicts"} :
             fn_out.issues[key] = TakenOr(fn_in, key, PyList(<< >>))

\* an upper-case "TRUE" with nothing else in the verdict: compliant, every
\* count 0 and every list empty
C20_Witness ==
    /\ pc = "parsed"
    /\ SuccessBody(fn_in)
    /\ VerdictOf(fn_in) = PyDict(<< << "compliance", PyStr(Chars("TRUE")) >> >>)
    /\ fn_out.success
    /\ fn_out.compliance.is_compliant
    /\ fn_out.compliance.total_required = PyInt(0)
    /\ fn_out.issues.conflicts = PyList(<< >>)

\* no compliance at all, the counts given: not compliant, the counts taken
C20_WitnessAbsentCompliance ==
    /\ pc = "parsed"
    /\ SuccessBody(fn_in)
    /\ ~HasKey(VerdictOf(fn_in), "compliance")
    /\ HasKey(VerdictOf(fn_in), "matched_count")
    /\ fn_out.success
    /\ ~fn_out.compliance.is_compliant
    /\ fn_out.compliance.matched_count = PyInt(3)

\* C21: a response whose status is not "success", or that has no answer key,
\* is parsed into a result with success = FALSE (the function itself never
\* raises: every path returns a dict).
C21_NoAnswerNoSuccess ==
    ( /\ pc = "parsed"
      /\ fn_in.t = "dict"
      /\ \/ GetOr(fn_in, "status", PyNone) # PyStr(Chars("success"))
         \/ ~HasKey(fn_in, "answer") )
    => ~fn_out.success

(***************************************************************************)
(* Properties of the result of process_extracted_text_for_regulations      *)
(***************************************************************************)
\* C28: a result of process_extracted_text_for_regulations never holds both
\* validation and validation_error, and holds neither when its success is
\* false (no regulations found, or the regulations query failed).
C28_ValidationKeysExclusive ==
    rag_result # NotRun =>
        /\ ~("validation" \in DOMAIN rag_result /\ "validation_error" \in DOMAIN rag_result)
        /\ ~rag_result.success =>
               /\ "validation" \notin DOMAIN rag_result
               /\ "validation_error" \notin DOMAIN rag_result

\* a returned result with the verdict attached and no validation_error
C28_Witness ==
    /\ Returned
    /\ rag_result # NotRun
    /\ rag_result.success
    /\ "validation" \in DOMAIN rag_result
    /\ "validation_error" \notin DOMAIN rag_result

\* a returned result of a blank regulations answer: neither key
C28_WitnessNoRegulations ==
    /\ Returned
    /\ rag_result # NotRun
    /\ ~rag_result.success
    /\ "frontend_message" \in DOMAIN rag_result
    /\ "validation" \notin DOMAIN rag_result
    /\ "validation_error" \notin DOMAIN rag_result

\* a returned result of a compliance call that raised: validation_error only
C28_WitnessValidationError ==
    /\ Returned
    /\ rag_result # NotRun
    /\ rag_result.success
    /\ "validation_error" \in DOMAIN rag_result
    /\ "validation" \notin DOMAIN rag_result

(***************************************************************************)
(* The HTTP handlers RAGController.query_regulations and                   *)
(* ValidationController.validate_compliance                                *)
(***************************************************************************)
\* the response helpers each controller class has, its own and BaseController's
BaseControllerMethods ==
    { "_success_response", "_created_response", "_no_content_response",
      "_not_found_response", "_bad_request_response", "_error_response" }

ControllerMethods ==
    [ ImageController |-> BaseControllerMethods \cup
                            { "_timeout_response", "_service_unavailable_response",
                              "_unprocessable_entity_response" },
      RAGController        |-> BaseControllerMethods,
      ValidationController |-> BaseControllerMethods ]

\* what each helper returns, for the helpers that are defined somewhere
HelperResponse ==
    [ _bad_request_response |-> BadRequestResponse,
      _error_response       |-> ErrorResponse(500, "InternalServerError"),
      _timeout_response     |-> ErrorResponse(408, "RequestTimeout") ]

\* the except clauses of query_regulations and of validate_compliance, in
\* source order, with the helper each one calls
HandlerExcepts ==
    << [cls |-> "LLMServiceTimeoutError", helper |-> "_timeout_response"],
       [cls |-> "LLMServiceError",        helper |-> "_service_error_response"],
       [cls |-> "Exception",              helper |-> "_internal_error_response"] >>

HandlerOf ==
    [ query_regulations   |-> [ controller |-> "RAGController", field |-> "user_query",
                                stage |-> "regulations" ],
      validate_compliance |-> [ controller |-> "ValidationController",
                                field |-> "validation_query", stage |-> "compliance" ] ]

\* self.<helper>(...) on an instance of `controller`: the attribute lookup fails
\* with AttributeError when no class of the instance defines the helper
CallHelper(controller, helper) ==
    IF helper \in ControllerMethods[controller]
    THEN [raised |-> NoException, returned |-> HelperResponse[helper]]
    ELSE [raised |-> Exc("AttributeError"), returned |-> NotRun]

RECURSIVE HandlerClause(_, _)
HandlerClause(exc, clauses) ==
    IF IsInstance(exc.cls, Head(clauses).cls) THEN Head(clauses).helper
    ELSE HandlerClause(exc, Tail(clauses))

\* the except clause that catches `exc` in a handler of `controller`
HandlerCatches(controller, exc) ==
    CallHelper(controller, HandlerClause(exc, HandlerExcepts))

\* the data of the success response of each handler
HandlerData(handler, request_data, body) ==
    IF handler = "query_regulations"
    THEN [ regulations |-> RAGResponseDTO(body).answer,
           sources     |-> RAGResponseDTO(body).sources,
           query       |-> Get(request_data, "user_query") ]
    ELSE [ validation_result |-> ParseValidationResponse(ValidationResponseToDict(body)),
           raw_response      |-> ValidationResponseToDict(body) ]

QueryText == PyStr(<< "q" >>)

\* request_data as the routing layer can pass it: the parsed JSON body
HandlerRequests ==
    { PyNone,
      PyDict(<< >>),
      PyDict(<< << "user_query", QueryText >> >>),
      PyDict(<< << "validation_query", QueryText >> >>),
      PyDict(<< << "user_query", QueryText >>, << "validation_query", QueryText >> >>) }

InitHandler ==
    /\ pc = "handler"
    /\ fn_in \in [ handler : DOMAIN HandlerOf, request_data : HandlerRequests ]
    /\ fn_out = NotRun
    /\ wiring = NotRun
    /\ users = NotRun
    /\ request = NotRun
    /\ llm_response = NotRun
    /\ result = NotRun
    /\ rag_response = NotRun
    /\ rag_result = NotRun
    /\ validation = NotRun
    /\ pdf_result = NotRun
    /\ calls = << >>
    /\ attempts = [vision |-> 0, regulations |-> 0, compliance |-> 0]
    /\ last_post = NotRun
    /\ raised = NoException
    /\ response = NotRun

\* the handler up to the service call: '<field>' not in request_data
HandlerValidate ==
    /\ pc = "handler"
    /\ LET h == HandlerOf[fn_in.handler] IN
       IF fn_in.request_data = PyNone
       THEN /\ fn_out' = HandlerCatches(h.controller, Exc("TypeError"))
            /\ pc' = "handled"
       ELSE IF ~HasKey(fn_in.request_data, h.field)
       THEN /\ fn_out' = CallHelper(h.controller, "_bad_request_response")
            /\ pc' = "handled"
       ELSE /\ fn_out' = fn_out
            /\ pc' = "handler_call"
    /\ UNCHANGED << users, wiring, request, llm_response, result, rag_response, rag_result,
                    validation, pdf_result, calls, attempts, last_post, raised,
                    response, fn_in >>

\* the service call of the handler and the rest of the handler
HandlerCall(answer) ==
    /\ pc = "handler_call"
    /\ Attempt(HandlerOf[fn_in.handler].stage, answer)
    /\ LET h == HandlerOf[fn_in.handler]
           outcome == SessionPost(answer, attempts[h.stage])
       IN
       IF outcome.kind = "retry"
       THEN UNCHANGED << pc, fn_out >>
       ELSE /\ pc' = "handled"
            /\ fn_out' =
                  IF ClassifyPost(outcome).exc # NoException
                  THEN HandlerCatches(h.controller, ClassifyPost(outcome).exc)
                  ELSE [ raised |-> NoException,
                         returned |-> SuccessResponse(
                             HandlerData(fn_in.handler, fn_in.request_data,
                                         ClassifyPost(outcome).body)) ]
    /\ UNCHANGED << users, wiring, request, llm_response, result, rag_response, rag_result,
                    validation, pdf_result, raised, response, fn_in >>

NextHandler ==
    \/ HandlerValidate
    \/ \E answer \in RagOutcomes \cup ValidationOutcomes : HandlerCall(answer)

SpecHandler == InitHandler /\ [][NextHandler]_vars

\* the service call of the handler ended in an exception
ServiceFailed ==
    /\ last_post # NotRun
    /\ ~last_post.retried
    /\ last_post.exc # NoException

\* C29: query_regulations and validate_compliance never raise; a service
\* timeout, a service error or any other exception ends in a returned error
\* response dict with status "error" and a status_code.
C29_HandlersNeverRaise ==
    pc = "handled" =>
        /\ fn_out.raised = NoException
        /\ (ServiceFailed \/ fn_in.request_data = PyNone) =>
              /\ fn_out.returned.status = "error"
              /\ fn_out.returned.status_code \in 400..599

(***************************************************************************)
(* Properties of the country patterns of _extract_product_information      *)
(***************************************************************************)
ExportCountryOrState ==
    Get(Get(Get(fn_out.validation_query, "image_extraction_raw"), "agent_response"),
        "export_country_or_state")

\* the value captured by the first label pattern that matches, in the order
\* Destination, Export, Country: the text after the colon up to the end of
\* the line, stripped
RECURSIVE ValueOfFirstLabel(_, _)
LabelValueOrNext(text, n, match) ==
    IF match # NoMatch THEN [found |-> TRUE, value |-> Picked(text, match, FALSE)]
    ELSE ValueOfFirstLabel(text, n + 1)

ValueOfFirstLabel(text, n) ==
    IF n > Len(country_label_patterns) THEN [found |-> FALSE]
    ELSE LabelValueOrNext(text, n, LabelSearch(text, 1, country_label_patterns[n]))

StoresLabelValue(text, first) ==
    IF first.found THEN ExportCountryOrState = PyStr(first.value)
    ELSE ExportCountryOrState = PyStr(NameValue(text, NameSearch(text)))

\* C27: the first matching location pattern wins in the order Destination,
\* Export, Country, bare country name; for each of the three label patterns
\* export_country_or_state is the value after the colon without the label,
\* and only the bare country-name pattern stores the whole match.
C27_LabelValueWithoutLabel ==
    (QueryFormatted /\ fn_in.extracted_text # PyNone) =>
        StoresLabelValue(fn_in.extracted_text.s, ValueOfFirstLabel(fn_in.extracted_text.s, 1))

(***************************************************************************)
(* Properties of the fallback chain of _extract_text_from_response         *)
(***************************************************************************)
\* one of the six text fields of the mapping holds a non-blank string
HoldsText(d) ==
    \E i \in 1..Len(text_fields) :
        /\ HasKey(d, text_fields[i])
        /\ Get(d, text_fields[i]).t = "str"
        /\ ~AllWhitespace(Get(d, text_fields[i]).s)

\* one of the probed locations holds non-blank text: the top-level fields, the
\* fields of results[0], or a non-empty responses.agent_response mapping
SomeLocationHoldsText(d) ==
    \/ HoldsText(d)
    \/ /\ HasKey(d, "results")
       /\ Get(d, "results").t = "list"
       /\ Len(Get(d, "results").elems) > 0
       /\ Get(d, "results").elems[1].t = "dict"
       /\ HoldsText(Get(d, "results").elems[1])
    \/ /\ HasAgentResponseMapping(d)
       /\ Get(Get(d, "responses"), "agent_response").items # << >>

\* C26: for a response whose data is a mapping, TextExtractionError "No text
\* found" is raised only when none of the probed locations holds non-blank
\* text; an empty higher-priority field does not keep the text of a
\* lower-priority location from being returned.
C26_RaisesOnlyWithoutText ==
    ( /\ pc = "extracted"
      /\ fn_in.error = PyNone
      /\ fn_in.data.t = "dict"
      /\ Truthy(fn_in.data)
      /\ fn_out.exc.cls = "TextExtractionError" )
    => ~SomeLocationHoldsText(fn_in.data)

(***************************************************************************)
(* Properties of the extraction result across the later stages             *)
(***************************************************************************)
\* a and b agree on the three fields the extraction stage sets
SameExtraction(a, b) ==
    /\ a.extracted_text = b.extracted_text
    /\ a.processing_time_ms = b.processing_time_ms
    /\ a.image_metadata = b.image_metadata

\* the fields a stage may attach to a result
AttachedFields == {"rag_result", "compliance_result", "pdf_report"}

\* C25: the later stages do not alter the extraction result, they only
\* attach rag_result, compliance_result and pdf_report: from the moment the
\* extraction stage built the result no step changes its extracted_text,
\* processing_time_ms or image_metadata, the text is the one extracted from
\* the vision response and the metadata that of the request, and the final
\* response carries the same three values.
C25_ExtractionResultKept ==
    [][ /\ result # NotRun =>
              /\ SameExtraction(result', result)
              /\ DOMAIN result' = DOMAIN result
              /\ \A f \in DOMAIN result : result'[f] # result[f] => f \in AttachedFields
        /\ result' # NotRun =>
              /\ result'.extracted_text = ExtractTextFromResponse(llm_response').text
              /\ result'.image_metadata = ImageMetadata(ImageUploadRequestDTO(request))
        /\ (response' # NotRun /\ response'.status = "success") =>
              SameExtraction(response'.data, result') ]_vars

\* a request that went through all stages, the report included
C25_Witness ==
    /\ pc = "done"
    /\ pdf_result # NotRun
    /\ pdf_result.kind = "generated"
    /\ response.status = "success"
    /\ response.data.processing_time_ms = PyInt(1520)
    /\ response.data.image_metadata = [media_type |-> "image/png", size_estimate |-> 0]
    /\ "pdf_report" \in DOMAIN response.data
    /\ "rag_result" \in DOMAIN response.data

(***************************************************************************)
(* The controllers as the entry points of the repository wire them         *)
(***************************************************************************)
\* who builds the ImageController: ApplicationContainer._setup_dependencies
\* (used by src/app.py, flask_server.py and Application), demo_workflow.py,
\* test_complete_validation_workflow.py
ControllersBuilt ==
    [ ApplicationContainer              |-> [rag |-> FALSE, validation |-> FALSE],
      demo_workflow                     |-> [rag |-> TRUE,  validation |-> FALSE],
      test_complete_validation_workflow |-> [rag |-> TRUE,  validation |-> TRUE] ]

\* the requests sent through a wired controller: one per outcome of the checks
ServedRequests ==
    { [has_encoded_image |-> FALSE],
      [has_encoded_image |-> TRUE, encoded_image |-> [kind |-> "empty"]],
      [has_encoded_image |-> TRUE,
       encoded_image |-> [kind |-> "image", size |-> 0, sniffed |-> "gif"]],
      [has_encoded_image |-> TRUE, media_type |-> "image/png",
       encoded_image |-> [kind |-> "image", size |-> 0, sniffed |-> "png"]] }

InitServe ==
    /\ pc = "setup"
    /\ fn_in \in [ entry_point : DOMAIN ControllersBuilt ]
    /\ request \in ServedRequests
    /\ wiring = NotRun
    /\ users = NotRun
    /\ llm_response = NotRun
    /\ result = NotRun
    /\ rag_response = NotRun
    /\ rag_result = NotRun
    /\ validation = NotRun
    /\ pdf_result = NotRun
    /\ calls = << >>
    /\ attempts = [vision |-> 0, regulations |-> 0, compliance |-> 0]
    /\ last_post = NotRun
    /\ raised = NoException
    /\ response = NotRun
    /\ fn_out = NotRun

\* the constructors run: ImageController.__init__ hands its rag_controller,
\* when it got one, to the LLMService; RAGController.__init__ keeps its
\* validation_controller
SetupDependencies ==
    /\ pc = "setup"
    /\ wiring' = ControllersBuilt[fn_in.entry_point]
    /\ pc' = "start"
    /\ UNCHANGED << users, request, llm_response, result, rag_response, rag_result, validation,
                    pdf_result, calls, attempts, last_post, raised, response,
                    fn_in, fn_out >>

NextServe == SetupDependencies \/ Next

\* a request that was accepted is run to its response: every await of the
\* handler ends, each POST having a timeout and a bounded number of retries
SpecServe == InitServe /\ [][NextServe]_vars /\ WF_vars(NextServe)

ViaContainer == fn_in.entry_point = "ApplicationContainer"

\* C30: the image controller of ApplicationContainer runs the full pipeline:
\* once the text is extracted the regulations query is performed, and once a
\* non-empty answer came back compliance validation follows.
C30_ContainerRunsFullPipeline ==
    /\ (ViaContainer /\ result # NotRun) ~> Called("regulations")
    /\ (ViaContainer /\ rag_response # NotRun /\ ~IsBlankAnswer(rag_response.answer))
           ~> Called("compliance")

(***************************************************************************)
(* UserService over UserRepository: create, update, activate, deactivate,  *)
(* delete.  The repository's _data is a dict, here the sequence of the     *)
(* stored users in insertion order; no handler suspends between its        *)
(* awaits, so each operation is one step.                                  *)
(***************************************************************************)
MaxUsers == 2

UserIds == 1..MaxUsers

ValueError(message) == [cls |-> "ValueError", message |-> message]

IsAsciiLetter(c) == IsCased(c)

IsAsciiDigit(c) == \E i \in 1..Len(Digits) : c = Digits[i]

\* [a-zA-Z0-9._%+-]
LocalChar(c) == IsAsciiLetter(c) \/ IsAsciiDigit(c) \/ c \in {".", "_", "%", "+", "-"}

\* [a-zA-Z0-9.-]
DomainChar(c) == IsAsciiLetter(c) \/ IsAsciiDigit(c) \/ c \in {".", "-"}

\* ^[a-zA-Z0-9._%+-]+@[a-zA-Z0-9.-]+\.[a-zA-Z]{2,} consuming all of s
EmailPatternFits(s) ==
    \E at \in 2..Len(s) :
        /\ s[at] = "@"
        /\ \A k \in 1..(at - 1) : LocalChar(s[k])
        /\ \E dot \in (at + 2)..(Len(s) - 2) :
              /\ s[dot] = "."
              /\ \A k \in (at + 1)..(dot - 1) : DomainChar(s[k])
              /\ \A k \in (dot + 1)..Len(s) : IsAsciiLetter(s[k])

\* _is_valid_email: re.match with $, which also matches before a final newline
IsValidEmail(email) ==
    /\ email.t = "str"
    /\ email.s # << >>
    /\ \/ EmailPatternFits(email.s)
       \/ /\ email.s[Len(email.s)] = "\n"
          /\ EmailPatternFits(SubSeq(email.s, 1, Len(email.s) - 1))

\* UserRepository.get_by_email: the first stored user with that e-mail
RECURSIVE GetByEmail(_, _)
GetByEmail(data, email) ==
    IF data = << >> THEN PyNone
    ELSE IF Head(data).email = email THEN Head(data)
    ELSE GetByEmail(Tail(data), email)

StoredIds(data) == { data[i].id : i \in 1..Len(data) }

\* BaseRepository.get_by_id
GetById(data, entity_id) ==
    IF entity_id \in StoredIds(data)
    THEN data[CHOOSE i \in 1..Len(data) : data[i].id = entity_id]
    ELSE PyNone

\* age is not None and (not isinstance(age, int) or age < 0 or age > 150)
AgeRejected(age) == age # PyNone /\ (age.t # "int" \/ age.n < 0 \/ age.n > 150)

\* not isinstance(name, str) or len(name.strip()) < 2
NameRejected(name) == name.t # "str" \/ Len(Strip(name.s)) < 2

DuplicateEmailMutant(existing_user, entity_data, is_update) ==
    existing_user # PyNone

\* existing_user and (not is_update or existing_user.id != entity_data.get('id'))
DuplicateEmail(existing_user, entity_data, is_update) ==
    /\ existing_user # PyNone
    /\ \/ ~is_update
       \/ "id" \notin DOMAIN entity_data
       \/ existing_user.id # entity_data.id

\* UserService._validate_entity_data: the ValueError raised, or NoException
ValidateEntityData(data, entity_data, is_update) ==
    IF DOMAIN entity_data = {} THEN ValueError("Entity data cannot be empty")
    ELSE IF ~is_update /\ "email" \notin DOMAIN entity_data
    THEN ValueError("Email is required")
    ELSE IF ~is_update /\ "name" \notin DOMAIN entity_data
    THEN ValueError("Name is required")
    ELSE IF "email" \in DOMAIN entity_data /\ ~IsValidEmail(entity_data.email)
    THEN ValueError("Invalid email format")
    ELSE IF "age" \in DOMAIN entity_data /\ AgeRejected(entity_data.age)
    THEN ValueError("Age must be between 0 and 150")
    ELSE IF "name" \in DOMAIN entity_data /\ NameRejected(entity_data.name)
    THEN ValueError("Name must be at least 2 characters long")
    ELSE IF /\ "email" \in DOMAIN entity_data
            /\ DuplicateEmail(GetByEmail(data, entity_data.email), entity_data, is_update)
    THEN ValueError("Email already exists")
    ELSE NoException

\* entity_data.get(key, default)
DataGet(entity_data, k, default) ==
    IF k \in DOMAIN entity_data THEN entity_data[k] ELSE default

\* _create_entity_from_data: User(...) with the uuid BaseModel gave it
CreateEntityFromData(entity_data, new_id) ==
    [ id        |-> new_id,
      email     |-> entity_data.email,
      name      |-> entity_data.name,
      age       |-> DataGet(entity_data, "age", PyNone),
      is_active |-> DataGet(entity_data, "is_active", TRUE) ]

\* _update_entity_from_data
UpdateEntityFromData(existing_entity, entity_data) ==
    [ id        |-> existing_entity.id,
      email     |-> DataGet(entity_data, "email", existing_entity.email),
      name      |-> DataGet(entity_data, "name", existing_entity.name),
      age       |-> DataGet(entity_data, "age", existing_entity.age),
      is_active |-> DataGet(entity_data, "is_active", existing_entity.is_active) ]

\* BaseRepository.update: self._data[entity_id] = entity keeps the position
RepositoryUpdate(data, entity_id, entity) ==
    [i \in 1..Len(data) |-> IF data[i].id = entity_id THEN entity ELSE data[i]]

\* BaseRepository.delete: del self._data[entity_id]
RepositoryDelete(data, entity_id) ==
    SelectSeq(data, LAMBDA user : user.id # entity_id)

\* str(uuid.uuid4()): an id no stored user has; ids are only compared for
\* equality, so the least free one stands for all of them
NewId(data) == CHOOSE i \in UserIds \ StoredIds(data) : \A j \in UserIds \ StoredIds(data) : i <= j

UserName == PyStr(<< "A", "l" >>)

Emails == { PyStr(Chars("a@x.io")), PyStr(Chars("b@x.io")) }

\* entity_data of a create or an update
EntityData ==
    { << >> }
    \cup { [email |-> e, name |-> UserName] : e \in Emails }
    \cup { [email |-> e] : e \in Emails }
    \cup { [email |-> e, id |-> i] : e \in Emails, i \in UserIds }
    \cup { [email |-> PyStr(Chars("a@x")), name |-> UserName],
           [email |-> PyStr(Chars("c@x.io")), name |-> UserName, age |-> PyInt(0 - 1)],
           [email |-> PyStr(Chars("c@x.io")), name |-> PyStr(<< "A", " " >>), age |-> PyInt(30)],
           [name |-> UserName, age |-> PyNone],
           [is_active |-> FALSE],
           [is_active |-> TRUE] }

InitUsers ==
    /\ pc = "users"
    /\ users = << >>
    /\ fn_in = NotRun
    /\ fn_out = NotRun
    /\ wiring = NotRun
    /\ request = NotRun
    /\ llm_response = NotRun
    /\ result = NotRun
    /\ rag_response = NotRun
    /\ rag_result = NotRun
    /\ validation = NotRun
    /\ pdf_result = NotRun
    /\ calls = << >>
    /\ attempts = [vision |-> 0, regulations |-> 0, compliance |-> 0]
    /\ last_post = NotRun
    /\ raised = NoException
    /\ response = NotRun

\* the call made and how it ended: fn_in the call, fn_out the value returned,
\* raised the exception that left it
Ended(call, returned, exc) ==
    /\ fn_in' = call
    /\ fn_out' = returned
    /\ raised' = exc
    /\ UNCHANGED << pc, wiring, request, llm_response, result, rag_response, rag_result,
                    validation, pdf_result, calls, attempts, last_post, response >>

\* BaseService.create
UserCreate(entity_data) ==
    /\ pc = "users"
    /\ Len(users) < MaxUsers
    /\ LET call == [op |-> "create", entity_data |-> entity_data]
           exc  == ValidateEntityData(users, entity_data, FALSE)
       IN  IF exc # NoException
           THEN users' = users /\ Ended(call, NotRun, exc)
           ELSE /\ users' = Append(users, CreateEntityFromData(entity_data, NewId(users)))
                /\ Ended(call, CreateEntityFromData(entity_data, NewId(users)), NoException)

\* BaseService.update
UserUpdate(entity_id, entity_data) ==
    /\ pc = "users"
    /\ LET call == [op |-> "update", entity_id |-> entity_id, entity_data |-> entity_data]
           exc  == ValidateEntityData(users, entity_data, TRUE)
       IN  IF GetById(users, entity_id) = PyNone
           THEN users' = users /\ Ended(call, PyNone, NoException)
           ELSE IF exc # NoException
           THEN users' = users /\ Ended(call, NotRun, exc)
           ELSE /\ users' = RepositoryUpdate(users, entity_id,
                                UpdateEntityFromData(GetById(users, entity_id), entity_data))
                /\ Ended(call, UpdateEntityFromData(GetById(users, entity_id), entity_data),
                         NoException)

\* activate_user / deactivate_user: user.activate() or user.deactivate(), then
\* repository.update
SetActive(op, entity_id, is_active) ==
    /\ pc = "users"
    /\ LET call == [op |-> op, entity_id |-> entity_id] IN
       IF GetById(users, entity_id) = PyNone
       THEN users' = users /\ Ended(call, PyNone, NoException)
       ELSE /\ users' = RepositoryUpdate(users, entity_id,
                            [GetById(users, entity_id) EXCEPT !.is_active = is_active])
            /\ Ended(call, [GetById(users, entity_id) EXCEPT !.is_active = is_active],
                     NoException)

ActivateUser(entity_id) == SetActive("activate_user", entity_id, TRUE)

DeactivateUser(entity_id) == SetActive("deactivate_user", entity_id, FALSE)

CanDeleteEntityMutant(data, entity_id) ==
    GetById(data, entity_id) # PyNone

\* UserService._can_delete_entity
CanDeleteEntity(data, entity_id) ==
    /\ GetById(data, entity_id) # PyNone
    /\ ~GetById(data, entity_id).is_active

\* BaseService.delete
UserDelete(entity_id) ==
    /\ pc = "users"
    /\ LET call == [op |-> "delete", entity_id |-> entity_id] IN
       IF entity_id \notin StoredIds(users) \/ ~CanDeleteEntity(users, entity_id)
       THEN users' = users /\ Ended(call, FALSE, NoException)
       ELSE /\ users' = RepositoryDelete(users, entity_id)
            /\ Ended(call, TRUE, NoException)

NextUsers ==
    \/ \E entity_data \in EntityData : UserCreate(entity_data)
    \/ \E entity_id \in UserIds, entity_data \in EntityData : UserUpdate(entity_id, entity_data)
    \/ \E entity_id \in UserIds : ActivateUser(entity_id)
    \/ \E entity_id \in UserIds : DeactivateUser(entity_id)
    \/ \E entity_id \in UserIds : UserDelete(entity_id)

SpecUsers == InitUsers /\ [][NextUsers]_vars

(***************************************************************************)
(* Properties of UserService                                               *)
(***************************************************************************)
StoredAndInactive(data, entity_id) ==
    /\ entity_id \in StoredIds(data)
    /\ ~GetById(data, entity_id).is_active

\* the step is a call of `op` that returned
Step(op) == fn_in' # NotRun /\ fn_in'.op = op /\ raised' = NoException

\* C23: delete removes a user only if it is stored and inactive: deleting an
\* active or an unknown user returns False and leaves the repository as it
\* was, deleting an inactive one returns True and the user is gone, the other
\* users untouched; deactivate_user on a stored user leaves it stored and
\* inactive, so that the same delete then succeeds.
C23_DeleteOnlyInactive ==
    [][ /\ Step("delete") =>
              IF StoredAndInactive(users, fn_in'.entity_id)
              THEN /\ fn_out' = TRUE
                   /\ users' = SelectSeq(users, LAMBDA user : user.id # fn_in'.entity_id)
              ELSE /\ fn_out' = FALSE
                   /\ users' = users
        /\ (Step("deactivate_user") /\ fn_in'.entity_id \in StoredIds(users)) =>
              StoredAndInactive(users', fn_in'.entity_id) ]_vars

\* a delete that succeeded while another user stays stored
C23_Witness ==
    /\ fn_in # NotRun
    /\ fn_in.op = "delete"
    /\ fn_out = TRUE
    /\ fn_in.entity_id \notin StoredIds(users)
    /\ Len(users) = 1

\* a delete refused because the user is active
C23_WitnessActive ==
    /\ fn_in # NotRun
    /\ fn_in.op = "delete"
    /\ fn_out = FALSE
    /\ fn_in.entity_id \in StoredIds(users)
    /\ GetById(users, fn_in.entity_id).is_active

EmailsUnique(data) ==
    \A i, j \in 1..Len(data) : i # j => data[i].email # data[j].email

\* the call would store an e-mail another stored user has
WouldDuplicate(data, call) ==
    /\ call.op \in {"create", "update"}
    /\ "email" \in DOMAIN call.entity_data
    /\ call.op = "update" => call.entity_id \in StoredIds(data)
    /\ \E i \in 1..Len(data) :
          /\ data[i].email = call.entity_data.email
          /\ call.op = "update" => data[i].id # call.entity_id

\* a check that comes before the duplicate check rejects the data
EarlierCheckFails(call) ==
    ValidateEntityData(<< >>, call.entity_data, call.op = "update") # NoException

\* C24: e-mails are unique: after any sequence of create, update, activate,
\* deactivate and delete no two stored users have the same e-mail, and a
\* create or update that would duplicate one raises ValueError "Email already
\* exists" (when no earlier check rejects its data) and changes nothing.
C24_EmailsUnique ==
    [][ /\ EmailsUnique(users')
        /\ (fn_in' # NotRun /\ WouldDuplicate(users, fn_in')) =>
              /\ users' = users
              /\ raised' # NoException
              /\ ~EarlierCheckFails(fn_in') => raised' = ValueError("Email already exists") ]_vars

(***************************************************************************)
(* Two invocations of ImageController.extract_text on the same controller  *)
(* and LLMService.  The services keep only what their constructors set     *)
(* (config, session, rag_controller); everything a request computes lives  *)
(* in local variables, here one slot per invocation.  The steps of the two *)
(* invocations interleave freely, as they do when the server handles       *)
(* requests in threads.  A POST is taken with its retries.                 *)
(***************************************************************************)
Invocations == {1, 2}

ConcurrentRequests ==
    { [has_encoded_image |-> TRUE, encoded_image |-> [kind |-> "empty"]],
      [has_encoded_image |-> TRUE,
       encoded_image |-> [kind |-> "image", size |-> 3, sniffed |-> "jpeg"]],
      [has_encoded_image |-> TRUE, media_type |-> "image/png",
       encoded_image |-> [kind |-> "image", size |-> 0, sniffed |-> "png"]] }

ConcurrentVisionAnswers ==
    { Response(200, PyDict(<< << "data", PyDict(<< << "text", PyStr(LabelText) >> >>) >> >>)),
      Response(200, PyDict(<< << "data", PyDict(<< << "text", PyStr(<< "J", "a", "m" >>) >> >>) >> >>)),
      [kind |-> "connect_timeout"] }

ConcurrentRagAnswers ==
    { Response(200, PyDict(<< << "answer", PyStr(RulesText) >>, << "sources", SourceList >> >>)),
      Response(200, PyDict(<< << "answer", PyStr(<< "N", "o" >>) >> >>)),
      Response(200, PyDict(<< >>)),
      [kind |-> "read_timeout"] }

ConcurrentValidationAnswers ==
    { Response(200, Verdict(PyStr(<< "t", "r", "u", "e" >>), 8)),
      Response(200, Verdict(PyStr(<< "f", "a", "l", "s", "e" >>), 3)),
      Response(400, PyDict(<< >>)) }

\* what the collaborators answered to one invocation, stage by stage
NoOutcomes ==
    [ vision |-> NotRun, processing_time |-> NotRun, regulations |-> NotRun,
      compliance |-> NotRun, pdf |-> NotRun ]

\* session.post with its retries: what the client gets in the end
FinalPost(answer) == ClassifyPost(SessionPost(answer, max_retries))

InitConcurrent ==
    /\ pc = [i \in Invocations |-> "start"]
    /\ wiring \in Wirings
    /\ request \in [Invocations -> ConcurrentRequests]
    /\ fn_in = [i \in Invocations |-> NoOutcomes]
    /\ result = [i \in Invocations |-> NotRun]
    /\ rag_result = [i \in Invocations |-> NotRun]
    /\ response = [i \in Invocations |-> NotRun]
    /\ calls = << >>
    /\ llm_response = NotRun
    /\ rag_response = NotRun
    /\ validation = NotRun
    /\ pdf_result = NotRun
    /\ attempts = [vision |-> 0, regulations |-> 0, compliance |-> 0]
    /\ last_post = NotRun
    /\ raised = NoException
    /\ fn_out = NotRun
    /\ users = NotRun

ResultOfMutant(i) == IF result[1] # NotRun THEN result[1] ELSE result[i]

\* the local variable `response` of extract_text_from_image, `result` in
\* extract_text: each invocation has its own
ResultOf(i) == result[i]

\* invocation i took a step that ends at `next` with these locals
Moves(i, next, res, rr, answered) ==
    /\ pc' = [pc EXCEPT ![i] = next]
    /\ result' = [result EXCEPT ![i] = res]
    /\ rag_result' = [rag_result EXCEPT ![i] = rr]
    /\ response' = [response EXCEPT ![i] = answered]
    /\ UNCHANGED << users, wiring, request, llm_response, rag_response, validation,
                    pdf_result, calls, attempts, last_post, raised, fn_out >>

\* extract_text_from_image returned res to extract_text
Returns(i, res, rr) ==
    IF ShouldGeneratePdf(res)
    THEN Moves(i, "pdf_call", res, rr, NotRun)
    ELSE Moves(i, "done", res, rr, SuccessResponse(ToDict(res)))

Raises(i, exc) == Moves(i, "done", result[i], rag_result[i], HandleException(exc))

\* extract_text up to the POST to the vision endpoint
ConcurrentStart(i) ==
    /\ pc[i] = "start"
    /\ fn_in' = fn_in
    /\ IF ValidateImageData(ImageUploadRequestDTO(request[i])) # NoException
       THEN Raises(i, ValidateImageData(ImageUploadRequestDTO(request[i])))
       ELSE Moves(i, "llm_call", result[i], rag_result[i], response[i])

Extracted(i, ext, processing_time) ==
    IF ext.exc # NoException THEN Raises(i, ext.exc)
    ELSE IF wiring.rag
    THEN Moves(i, "rag_call",
               TextExtractionResponseDTO(ext.text, processing_time,
                   ImageMetadata(ImageUploadRequestDTO(request[i]))),
               rag_result[i], response[i])
    ELSE Returns(i, TextExtractionResponseDTO(ext.text, processing_time,
                        ImageMetadata(ImageUploadRequestDTO(request[i]))),
                 rag_result[i])

VisionAnswered(i, post, processing_time) ==
    IF post.exc # NoException THEN Raises(i, post.exc)
    ELSE Extracted(i, ExtractTextFromResponse(LLMResponseDTO(post.body)), processing_time)

\* the POST to the vision endpoint and the code up to the regulations query
ConcurrentCallLLM(i, answer, processing_time) ==
    /\ pc[i] = "llm_call"
    /\ fn_in' = [fn_in EXCEPT ![i].vision = answer, ![i].processing_time = processing_time]
    /\ VisionAnswered(i, FinalPost(answer), processing_time)

RagAnswered(i, post) ==
    IF post.exc # NoException
    THEN Returns(i, AttachRagResult(ResultOf(i), RagFailure(post.exc)), RagFailure(post.exc))
    ELSE IF IsBlankAnswer(RAGResponseDTO(post.body).answer)
    THEN Returns(i, AttachRagResult(ResultOf(i),
                        RagNoRegulations(RagBaseResult(RAGResponseDTO(post.body)))),
                 RagNoRegulations(RagBaseResult(RAGResponseDTO(post.body))))
    ELSE IF wiring.validation
    THEN Moves(i, "validation_call", result[i],
               RagBaseResult(RAGResponseDTO(post.body)), response[i])
    ELSE Returns(i, AttachRagResult(ResultOf(i), RagBaseResult(RAGResponseDTO(post.body))),
                 RagBaseResult(RAGResponseDTO(post.body)))

\* the POST to the regulations endpoint and the code up to the compliance call
ConcurrentQueryRegulations(i, answer) ==
    /\ pc[i] = "rag_call"
    /\ fn_in' = [fn_in EXCEPT ![i].regulations = answer]
    /\ RagAnswered(i, FinalPost(answer))

Validated(i, rr) == Returns(i, AttachRagResult(ResultOf(i), rr), rr)

\* the POST to the compliance endpoint and the code up to the PDF step
ConcurrentValidateCompliance(i, answer) ==
    /\ pc[i] = "validation_call"
    /\ fn_in' = [fn_in EXCEPT ![i].compliance = answer]
    /\ Validated(i, ApplyValidationResult(rag_result[i],
                        ProcessFullValidation(FALSE, SessionPost(answer, max_retries))))

\* generate_compliance_report and the rest of extract_text
ConcurrentGeneratePdf(i, outcome) ==
    /\ pc[i] = "pdf_call"
    /\ fn_in' = [fn_in EXCEPT ![i].pdf = outcome]
    /\ Moves(i, "done", ApplyPdfResult(ResultOf(i), outcome), rag_result[i],
             SuccessResponse(ToDict(ApplyPdfResult(ResultOf(i), outcome))))

NextConcurrent ==
    \E i \in Invocations :
        \/ ConcurrentStart(i)
        \/ \E answer \in ConcurrentVisionAnswers, processing_time \in ProcessingTimes :
               ConcurrentCallLLM(i, answer, processing_time)
        \/ \E answer \in ConcurrentRagAnswers : ConcurrentQueryRegulations(i, answer)
        \/ \E answer \in ConcurrentValidationAnswers : ConcurrentValidateCompliance(i, answer)
        \/ \E outcome \in PdfOutcomes : ConcurrentGeneratePdf(i, outcome)

SpecConcurrent == InitConcurrent /\ [][NextConcurrent]_vars

(***************************************************************************)
(* One invocation run alone, as a function of its request, the wiring and  *)
(* the answers it got                                                      *)
(***************************************************************************)
AloneFinish(res, outcomes) ==
    IF ShouldGeneratePdf(res)
    THEN SuccessResponse(ToDict(ApplyPdfResult(res, outcomes.pdf)))
    ELSE SuccessResponse(ToDict(res))

AloneRagResult(wired, outcomes, post) ==
    IF post.exc # NoException THEN RagFailure(post.exc)
    ELSE IF IsBlankAnswer(RAGResponseDTO(post.body).answer)
    THEN RagNoRegulations(RagBaseResult(RAGResponseDTO(post.body)))
    ELSE IF wired.validation
    THEN ApplyValidationResult(RagBaseResult(RAGResponseDTO(post.body)),
             ProcessFullValidation(FALSE, SessionPost(outcomes.compliance, max_retries)))
    ELSE RagBaseResult(RAGResponseDTO(post.body))

AloneAfterExtraction(res, wired, outcomes) ==
    IF wired.rag
    THEN AloneFinish(AttachRagResult(res,
                         AloneRagResult(wired, outcomes, FinalPost(outcomes.regulations))),
                     outcomes)
    ELSE AloneFinish(res, outcomes)

AloneExtracted(request_data, wired, outcomes, ext) ==
    IF ext.exc # NoException THEN HandleException(ext.exc)
    ELSE AloneAfterExtraction(
             TextExtractionResponseDTO(ext.text, outcomes.processing_time,
                 ImageMetadata(ImageUploadRequestDTO(request_data))),
             wired, outcomes)

AloneVision(request_data, wired, outcomes, post) ==
    IF post.exc # NoException THEN HandleException(post.exc)
    ELSE AloneExtracted(request_data, wired, outcomes,
                        ExtractTextFromResponse(LLMResponseDTO(post.body)))

RunAlone(request_data, wired, outcomes) ==
    IF ValidateImageData(ImageUploadRequestDTO(request_data)) # NoException
    THEN HandleException(ValidateImageData(ImageUploadRequestDTO(request_data)))
    ELSE AloneVision(request_data, wired, outcomes, FinalPost(outcomes.vision))

\* C22: two invocations on the same controller and service share no mutable
\* per-request state: under every interleaving of their steps the response of
\* each invocation that has returned is the one it would get if run alone on
\* its own request with the answers its own calls received.
C22_InvocationsIndependent ==
    pc \in [Invocations -> STRING] =>
        \A i \in Invocations :
            pc[i] = "done" => response[i] = RunAlone(request[i], wiring, fn_in[i])

\* both invocations went through all stages on different labels and got
\* their reports
C22_Witness ==
    /\ pc \in [Invocations -> STRING]
    /\ \A i \in Invocations :
          /\ pc[i] = "done"
          /\ response[i].status = "success"
          /\ "pdf_report" \in DOMAIN response[i].data
    /\ response[1].data.extracted_text # response[2].data.extracted_text
    /\ response[1].data.rag_result # response[2].data.rag_result
    /\ response[1].data.compliance_result # response[2].data.compliance_result

\* one invocation has returned while the other is still between two stages
C22_WitnessOverlap ==
    /\ pc \in [Invocations -> STRING]
    /\ pc[1] = "validation_call"
    /\ pc[2] = "done"
    /\ response[2].status = "success"
    /\ result[1].extracted_text # result[2].extracted_text

====
